---- MODULE Spec2Model ----
(***************************************************************************)
(* The quadruped leg-rig scripts of fido-beam as one state machine.        *)
(*                                                                         *)
(* script selects which script's main() runs: walk.py ("walk"),            *)
(* walk_smooth.py ("smooth"), walk_step_by_step_single_leg.py ("single")   *)
(* or walk_step_by_step_dual_legs.py ("dual").                             *)
(*                                                                         *)
(* Units.  Angles are integers in hundredths of a degree (185.1 degrees is *)
(* 18510).  AMPLITUDE and OFFSET of walk_smooth.py are kept in units of    *)
(* 1/200 degree, so that the division by 2 of the source loses nothing.    *)
(* The phase t of walk_smooth.py is in units of 0.005 rad, so that         *)
(* FREQUENCY * delta_t = 1.5 * 0.05 = 0.075 rad is the integer 15.         *)
(* sin and cos return thousandths.                                         *)
(***************************************************************************)
EXTENDS Integers, Sequences, FiniteSets, TLC

Max(a, b) == IF a >= b THEN a ELSE b

Min(a, b) == IF a <= b THEN a ELSE b

Scripts == {"walk", "smooth", "single", "dual"}

ServoIds == 1..8

(***************************************************************************)
(* The calibration tables.                                                 *)
(***************************************************************************)
Bottom(mn, mx, n, sf, sb) ==
    [min_angle |-> mn, max_angle |-> mx, neutral_angle |-> n,
     swing_forward |-> sf, swing_backward |-> sb]

Top(mn, mx, n, ld, lu) ==
    [min_angle |-> mn, max_angle |-> mx, neutral_angle |-> n,
     lift_down |-> ld, lift_up |-> lu]

\* The "name" of a servo, the same in every script, as its words.
NAME(servo_id) ==
    CASE servo_id = 1 -> <<"Back", "Left", "Bottom">>
      [] servo_id = 2 -> <<"Back", "Left", "Top">>
      [] servo_id = 3 -> <<"Front", "Left", "Bottom">>
      [] servo_id = 4 -> <<"Front", "Left", "Top">>
      [] servo_id = 5 -> <<"Front", "Right", "Bottom">>
      [] servo_id = 6 -> <<"Front", "Right", "Top">>
      [] servo_id = 7 -> <<"Back", "Right", "Bottom">>
      [] servo_id = 8 -> <<"Back", "Right", "Top">>

\* "Bottom" in config["name"]
IsBottom(servo_id) == \E k \in 1..Len(NAME(servo_id)) : NAME(servo_id)[k] = "Bottom"

\* "Top" in config["name"]
IsTop(servo_id) == \E k \in 1..Len(NAME(servo_id)) : NAME(servo_id)[k] = "Top"

\* walk.py
SERVOS_walk ==
    <<Bottom(16000, 21000, 18500, 15010, 18510),
      Top(10500, 13500, 12500, 11590, 12510),
      Bottom(13000, 22000, 21000, 18000, 21082),
      Top(13000, 18000, 12500, 14080, 12510),
      Bottom(15000, 19992, 17000, 19982, 17000),
      Top(7500, 13500, 10000, 9078, 10010),
      Bottom(13000, 17976, 17000, 15066, 17010),
      Top(6000, 9000, 6500, 8010, 6578)>>

\* walk_step_by_step_single_leg.py
SERVOS_single ==
    <<Bottom(16000, 21000, 18500, 15010, 18510),
      Top(10500, 13500, 12500, 12590, 11510),
      Bottom(13000, 22000, 21000, 18000, 21082),
      Top(12000, 18000, 13000, 14080, 12010),
      Bottom(15000, 19992, 17000, 19982, 17000),
      Top(7500, 13500, 10000, 9078, 11010),
      Bottom(13000, 17976, 17000, 19066, 15010),
      Top(5500, 9000, 6500, 5510, 7578)>>

\* walk_step_by_step_dual_legs.py
SERVOS_dual ==
    <<Bottom(16000, 21000, 18500, 14010, 18510),
      Top(10500, 13500, 12500, 12590, 11510),
      Bottom(13000, 22000, 21000, 17000, 21082),
      Top(12000, 18000, 13000, 13580, 12510),
      Bottom(15000, 21500, 17000, 20982, 17000),
      Top(7500, 13500, 10000, 9078, 11010),
      Bottom(13000, 17976, 16000, 20066, 15010),
      Top(5500, 9000, 6500, 5510, 7578)>>

\* walk_smooth.py: the table as written, before configure_servos.
FRONT_LEFT_BOTTOM == 17000

FRONT_LEFT_TOP == 19000

FRONT_RIGHT_BOTTOM == 17000

FRONT_RIGHT_TOP == 17500

BACK_LEFT_BOTTOM == 18000

BACK_LEFT_TOP == 18000

BACK_RIGHT_BOTTOM == 17000

BACK_RIGHT_TOP == 16500

BOTTOM_SWING_FORWARD_OFFSET == 4000

TOP_LIFT_UP_OFFSET == 500

SERVOS_smooth ==
    <<[neutral_angle |-> BACK_LEFT_BOTTOM, type |-> "bottom", movement_direction |-> "decrease"],
      [neutral_angle |-> BACK_LEFT_TOP, type |-> "top", movement_direction |-> "decrease"],
      [neutral_angle |-> FRONT_LEFT_BOTTOM, type |-> "bottom", movement_direction |-> "decrease"],
      [neutral_angle |-> FRONT_LEFT_TOP, type |-> "top", movement_direction |-> "increase"],
      [neutral_angle |-> FRONT_RIGHT_BOTTOM, type |-> "bottom", movement_direction |-> "increase"],
      [neutral_angle |-> FRONT_RIGHT_TOP, type |-> "top", movement_direction |-> "increase"],
      [neutral_angle |-> BACK_RIGHT_BOTTOM, type |-> "bottom", movement_direction |-> "increase"],
      [neutral_angle |-> BACK_RIGHT_TOP, type |-> "top", movement_direction |-> "increase"]>>

\* The table a script starts with.
Table(s) ==
    CASE s = "walk" -> SERVOS_walk
      [] s = "single" -> SERVOS_single
      [] s = "dual" -> SERVOS_dual
      [] s = "smooth" -> SERVOS_smooth

\* The order in which "for servo_id, config in SERVOS.items()" visits the
\* servos: the order in which the table is written.
ORDER(s) ==
    IF s = "smooth" THEN <<1, 2, 7, 8, 3, 4, 5, 6>>
    ELSE <<1, 2, 3, 4, 5, 6, 7, 8>>

GROUP_A == <<3, 4, 7, 8>>

GROUP_B == <<1, 2, 5, 6>>

LEGS ==
    <<[name |-> "Front Left", top_servo_id |-> 4, bottom_servo_id |-> 3],
      [name |-> "Front Right", top_servo_id |-> 6, bottom_servo_id |-> 5],
      [name |-> "Back Left", top_servo_id |-> 2, bottom_servo_id |-> 1],
      [name |-> "Back Right", top_servo_id |-> 8, bottom_servo_id |-> 7]>>

(***************************************************************************)
(* Pure functions.                                                         *)
(***************************************************************************)

\* What the operator types is a sequence of characters.
Digits == <<"0", "1", "2", "3", "4", "5", "6", "7", "8", "9">>

IsDigit(c) == \E d \in DOMAIN Digits : Digits[d] = c

DigitValue(c) == (CHOOSE d \in DOMAIN Digits : Digits[d] = c) - 1

AllDigits(s) == \A k \in DOMAIN s : IsDigit(s[k])

RECURSIVE lstrip(_)
lstrip(s) == IF s # <<>> /\ Head(s) = " " THEN lstrip(Tail(s)) ELSE s

RECURSIVE rstrip(_)
rstrip(s) ==
    IF s # <<>> /\ s[Len(s)] = " " THEN rstrip(SubSeq(s, 1, Len(s) - 1)) ELSE s

\* str.strip()
strip(s) == rstrip(lstrip(s))

\* str.lower(), over the letters the entries are written with.
lower(s) ==
    [k \in DOMAIN s |->
        CASE s[k] = "C" -> "c"
          [] s[k] = "A" -> "a"
          [] s[k] = "N" -> "n"
          [] s[k] = "E" -> "e"
          [] s[k] = "L" -> "l"
          [] OTHER -> s[k]]

\* The number a sequence of digits writes in base 10.
RECURSIVE Decimal(_)
Decimal(s) ==
    IF s = <<>> THEN 0
    ELSE 10 * Decimal(SubSeq(s, 1, Len(s) - 1)) + DigitValue(s[Len(s)])

\* A string without its sign, and the sign.
Unsigned(s) == IF s # <<>> /\ Head(s) \in {"-", "+"} THEN Tail(s) ELSE s

Sign(s) == IF s # <<>> /\ Head(s) = "-" THEN -1 ELSE 1

\* The result of a conversion that raised ValueError.
ValueError == [ok |-> FALSE, nan |-> FALSE, val |-> 0]

\* int(s): blanks around, a sign, digits; anything else is a ValueError.
int(s) ==
    LET u == Unsigned(strip(s))
    IN  IF u # <<>> /\ AllDigits(u)
        THEN [ok |-> TRUE, nan |-> FALSE, val |-> Sign(strip(s)) * Decimal(u)]
        ELSE ValueError

\* The place of the decimal point of u, 0 when it has none.
PointAt(u) ==
    IF \E k \in DOMAIN u : u[k] = "." THEN CHOOSE k \in DOMAIN u :
            u[k] = "." /\ \A j \in 1..(k - 1) : u[j] # "."
    ELSE 0

\* A conversion that reads 0.0 where float raises ValueError.
float_lenient(s) ==
    IF AllDigits(Unsigned(strip(s))) /\ strip(s) # <<>>
    THEN [ok |-> TRUE, nan |-> FALSE, val |-> 100 * Sign(strip(s)) * Decimal(Unsigned(strip(s)))]
    ELSE [ok |-> TRUE, nan |-> FALSE, val |-> 0]

\* float(s), in hundredths: blanks around, a sign, digits with at most one
\* point and at least one digit, or nan; anything else is a ValueError.
\* Digits after the second decimal are below the unit of the model.
float(s) ==
    LET u == Unsigned(strip(s))
        p == PointAt(u)
        whole == IF p = 0 THEN u ELSE SubSeq(u, 1, p - 1)
        frac == IF p = 0 THEN <<>> ELSE SubSeq(u, p + 1, Len(u))
        cents == SubSeq(frac \o <<"0", "0">>, 1, 2)
    IN  IF lower(u) = <<"n", "a", "n">>
        THEN [ok |-> TRUE, nan |-> TRUE, val |-> 0]
        ELSE IF AllDigits(whole) /\ AllDigits(frac) /\ Len(whole) + Len(frac) > 0
        THEN [ok |-> TRUE, nan |-> FALSE,
              val |-> Sign(strip(s)) * (100 * Decimal(whole) + Decimal(cents))]
        ELSE ValueError

\* clamp_angle reads the limits of the table S it is given: boot_sequence
\* calls it right after it has stored the observed limits.
clamp_angle_unclamped(S, servo_id, angle) == angle

\* A clamp that forgets the upper limit.
clamp_angle_floor(S, servo_id, angle) == Max(angle, S[servo_id].min_angle)

clamp_angle(S, servo_id, angle) ==
    LET min_angle == S[servo_id].min_angle
        max_angle == S[servo_id].max_angle
    IN  Max(Min(angle, max_angle), min_angle)

\* The values generate_angles yields, as a sequence.  step = 0 raises
\* ValueError before anything is yielded.
RECURSIVE generate_angles(_, _, _)
generate_angles(start, stop, step) ==
    IF step > 0
    THEN IF start <= stop
         THEN <<start>> \o generate_angles(start + step, stop, step)
         ELSE <<>>
    ELSE IF step < 0
         THEN IF start >= stop
              THEN <<start>> \o generate_angles(start + step, stop, step)
              ELSE <<>>
         ELSE <<>>

\* configure_servos of walk_smooth.py, for one servo.
configure_servo(config) ==
    LET neutral == config.neutral_angle
        direction == config.movement_direction
    IN  IF config.type = "bottom"
        THEN LET swing_forward == IF direction = "decrease"
                                  THEN neutral - BOTTOM_SWING_FORWARD_OFFSET
                                  ELSE neutral + BOTTOM_SWING_FORWARD_OFFSET
                 swing_backward == IF direction = "decrease"
                                   THEN neutral + 10
                                   ELSE neutral - 10
             IN  config @@ [swing_forward |-> swing_forward,
                            swing_backward |-> swing_backward,
                            min_angle |-> Min(swing_forward, swing_backward) - 2000,
                            max_angle |-> Max(swing_forward, swing_backward) + 2000]
        ELSE LET lift_up == IF direction = "decrease"
                            THEN neutral - TOP_LIFT_UP_OFFSET
                            ELSE neutral + TOP_LIFT_UP_OFFSET
                 lift_down == IF direction = "decrease"
                              THEN neutral + 1000
                              ELSE neutral - 10
             IN  config @@ [lift_up |-> lift_up,
                            lift_down |-> lift_down,
                            min_angle |-> Min(lift_up, lift_down) - 2000,
                            max_angle |-> Max(lift_up, lift_down) + 2000]

configure_servos(servos) == [servo_id \in ServoIds |-> configure_servo(servos[servo_id])]

\* Is the servo a swing (Bottom) servo, as the script decides it.
BottomIn(s, S, servo_id) ==
    IF s = "smooth" THEN S[servo_id].type = "bottom" ELSE IsBottom(servo_id)

(***************************************************************************)
(* The servo bus.  The SDK (pylx16a) is outside the repository: what a     *)
(* call returns or raises is the environment's choice.                     *)
(***************************************************************************)

\* How far a servo may narrow a limit it is asked for.
NarrowBy == 2500

\* At most this many servos report limits other than the ones requested.
MaxDeviating == 1

\* servo.get_angle_limits(): the limits requested, or narrower ones.
Readbacks(lo, hi) ==
    {lim \in {<<lo + a, hi - b>> : a \in {0, NarrowBy}, b \in {0, NarrowBy}} :
        lim[1] <= lim[2]}

VARIABLES
    script,            \* the script that runs
    SERVOS,            \* the calibration table of the script (module-level dict)
    mainpc,            \* where the main thread is
    mi,                \* its loop index (boot, homing, step-by-step, walk_smoothly)
    homeRet,           \* where the main thread goes when homing_sequence returns
    walk_thread,       \* the thread running walk(stop_event): [pc, grp, i]
    fine_tune_thread,  \* the thread running fine_tune_front_left_leg: [pc, i]
    stop_event,        \* threading.Event of the current session: is it set
    t,                 \* walk_smoothly's phase accumulator
    exitStatus,        \* the process's exit status, -1 while it runs
    exitCause,         \* why the process ended
    lastCmd,           \* history: the last servo.move issued
    sess,              \* history: "clean", "failed" (a move raised in this session),
                       \*          "moved" (a gait move was issued after that)
    errState,          \* history: "none", "pending" (hardware error, no homing
                       \*          command since), "homed"
    pendingHome,       \* history: the operator interrupted walking and no homing
                       \*          sequence has completed since
    midTick,           \* history: the walking tick in progress has issued some of
                       \*          its commands and not yet all of them
    homeLog,           \* history: <<servo, angle>> commanded by the homing sequence
                       \*          in progress, or by the last one
    firstHome,         \* history: homeLog of the first completed homing sequence
    stepLog,           \* history: the moves and confirmations of step-by-step mode
                       \*          since it was last entered, until homing begins
    choice,            \* measure.py: the menu choice main() is handling
    selected_servo_id, \* measure.py: the servo main() has selected
    move_angle,        \* measure.py: the angle awaiting the confirmation
    entry,             \* history: the last line the operator typed at the menu
                       \*          of walk.py or at a prompt of measure.py
    gen,               \* a generator made by generate_angles, followed on its own
    afterStop          \* history: the servos fine_tune_front_left_leg has commanded
                       \*          since the operator's interrupt set the stop flag

progVars == <<script, SERVOS, mainpc, mi, homeRet, walk_thread, fine_tune_thread,
              stop_event, t, exitStatus, exitCause>>

histVars == <<lastCmd, sess, errState, pendingHome, midTick, homeLog, firstHome,
              stepLog>>

measureVars == <<choice, selected_servo_id, move_angle>>

vars == <<progVars, histVars, measureVars, entry, gen, afterStop>>

\* No generator is followed.
NoGen == [pc |-> "none", start |-> 0, stop |-> 0, step |-> 0, current |-> 0, out |-> <<>>]

\* selected_servo_id = None
None == 0

NoEntry == [prompt |-> "none", text |-> <<>>]

NoThread == [pc |-> "none", grp |-> "A", i |-> 0, moves |-> <<>>]

NoFineTune == [pc |-> "none", dir |-> "up", current |-> 0]

\* A thread whose function has returned, and one that died with the process.
Ended(none, thread) ==
    IF thread.pc = "none" THEN none ELSE [none EXCEPT !.pc = "done"]

Killed(none, thread) ==
    IF thread.pc \in {"none", "done"} THEN thread ELSE [none EXCEPT !.pc = "killed"]

NoCmd == [servo |-> 0, angle |-> 0, raw |-> 0, by |-> "none", op |-> "none"]

\* thread.is_alive()
is_alive(thread) == thread.pc \notin {"none", "done", "killed"}

\* The limits the script asks each servo for.
Requested(s) == IF s = "smooth" THEN configure_servos(SERVOS_smooth) ELSE Table(s)

\* The servos whose stored limits differ from the requested ones.
Deviating ==
    Cardinality({id \in ServoIds :
        \/ SERVOS[id].min_angle # Requested(script)[id].min_angle
        \/ SERVOS[id].max_angle # Requested(script)[id].max_angle})

\* The exit status when handle_disconnection ends the process: quit() in
\* walk.py (SystemExit(None): status 0), sys.exit(1) in the other scripts.
HandledExitStatus(s) == IF s = "walk" THEN 0 ELSE 1

\* The exit status of an exception nothing catches (traceback).
UncaughtExitStatus == 1

\* The exit status when KeyboardInterrupt is not caught.
SigintExitStatus == 130

\* The process ends: daemon threads die with it, and so do the locals of
\* main().
Terminate(cause, status) ==
    /\ mainpc' = "exit"
    /\ mi' = 0
    /\ homeRet' = "none"
    /\ stop_event' = FALSE
    /\ t' = 0
    /\ exitStatus' = status
    /\ exitCause' = cause
    /\ walk_thread' = Killed(NoThread, walk_thread)
    /\ fine_tune_thread' = Killed(NoFineTune, fine_tune_thread)

Running == UNCHANGED <<exitStatus, exitCause>>

GaitOps == {"lift", "swing", "lower", "fine_tune", "step", "smooth"}

\* servo.move(angle) is issued; ok is whether it returns (or raises).
Issue(by, op, servo_id, angle, raw, ok) ==
    /\ lastCmd' = [servo |-> servo_id, angle |-> angle, raw |-> raw,
                   by |-> by, op |-> op]
    /\ sess' = IF op \in GaitOps /\ sess = "failed" THEN "moved"
               ELSE IF ~ok /\ sess = "clean" THEN "failed"
               ELSE sess
    /\ errState' = IF ~ok THEN "pending"
                   ELSE IF op = "home" /\ errState = "pending" THEN "homed"
                   ELSE errState

\* A boot_sequence that stores the limits reported and leaves the swing and
\* lift angles of configure_servos as they are.
BootConfig_asConfigured(s, S, servo_id, lo, hi) ==
    LET lim == [S EXCEPT ![servo_id].min_angle = lo, ![servo_id].max_angle = hi]
        config == lim[servo_id]
    IN  IF s # "smooth"
        THEN config
        ELSE IF BottomIn(s, S, servo_id)
             THEN config @@
                  [AMPLITUDE |-> config.swing_forward - config.swing_backward,
                   OFFSET |-> config.swing_forward + config.swing_backward]
             ELSE config @@
                  [AMPLITUDE |-> config.lift_up - config.lift_down,
                   OFFSET |-> config.lift_up + config.lift_down]

\* The table after boot_sequence has handled servo_id, whose servo reported
\* the limits lo..hi.
BootConfig(s, S, servo_id, lo, hi) ==
    LET lim == [S EXCEPT ![servo_id].min_angle = lo, ![servo_id].max_angle = hi]
        config == lim[servo_id]
    IN  IF s = "walk"
        THEN config
        ELSE LET clamped ==
                     IF BottomIn(s, S, servo_id)
                     THEN [config EXCEPT
                             !.swing_forward = clamp_angle(lim, servo_id, config.swing_forward),
                             !.swing_backward = clamp_angle(lim, servo_id, config.swing_backward)]
                     ELSE [config EXCEPT
                             !.lift_up = clamp_angle(lim, servo_id, config.lift_up),
                             !.lift_down = clamp_angle(lim, servo_id, config.lift_down)]
             IN  IF s # "smooth"
                 THEN clamped
                 ELSE IF BottomIn(s, S, servo_id)
                      THEN clamped @@
                           [AMPLITUDE |-> clamped.swing_forward - clamped.swing_backward,
                            OFFSET |-> clamped.swing_forward + clamped.swing_backward]
                      ELSE clamped @@
                           [AMPLITUDE |-> clamped.lift_up - clamped.lift_down,
                            OFFSET |-> clamped.lift_up + clamped.lift_down]

\* Homing that sends the recorded neutral_angle as it is in every script.
HomeAngle_recorded(s, S, servo_id) == S[servo_id].neutral_angle

\* Homing that parks a servo at its upper limit when the session before it
\* was stopped by the operator.
HomeAngle_stopped(s, S, servo_id) ==
    IF stop_event
    THEN S[servo_id].max_angle
    ELSE IF s = "walk"
         THEN IF IsBottom(servo_id)
              THEN (S[servo_id].swing_backward + S[servo_id].swing_forward) \div 2
              ELSE S[servo_id].lift_down
         ELSE clamp_angle(S, servo_id, S[servo_id].neutral_angle)

\* The angle homing_sequence commands to servo_id.
HomeAngle(s, S, servo_id) ==
    IF s = "walk"
    THEN IF IsBottom(servo_id)
         THEN (S[servo_id].swing_backward + S[servo_id].swing_forward) \div 2
         ELSE S[servo_id].lift_down
    ELSE clamp_angle(S, servo_id, S[servo_id].neutral_angle)

\* The caller calls homing_sequence() and then continues at ret.
StartHoming(ret) ==
    /\ mainpc' = "home"
    /\ mi' = 1
    /\ homeRet' = ret
    /\ homeLog' = <<>>

Init ==
    /\ script \in Scripts
    /\ SERVOS = Table(script)
    /\ mainpc = IF script = "smooth" THEN "configure" ELSE "boot"
    /\ mi = 1
    /\ homeRet = "none"
    /\ walk_thread = NoThread
    /\ fine_tune_thread = NoFineTune
    /\ stop_event = FALSE
    /\ t = 0
    /\ exitStatus = -1
    /\ exitCause = "none"
    /\ lastCmd = NoCmd
    /\ sess = "clean"
    /\ errState = "none"
    /\ pendingHome = FALSE
    /\ midTick = FALSE
    /\ homeLog = <<>>
    /\ firstHome = <<>>
    /\ stepLog = <<>>
    /\ choice = <<>>
    /\ selected_servo_id = None
    /\ move_angle = 0
    /\ entry = NoEntry
    /\ gen = NoGen
    /\ afterStop = <<>>

(***************************************************************************)
(* Start-up: configure_all_servos, boot_sequence, homing_sequence.         *)
(***************************************************************************)

\* walk_smooth.py: configure_all_servos()
configure_all_servos ==
    /\ mainpc = "configure"
    /\ SERVOS' = configure_servos(SERVOS)
    /\ mainpc' = "boot"
    /\ UNCHANGED <<measureVars, entry>>
    /\ UNCHANGED <<gen, afterStop, script, mi, homeRet, walk_thread, fine_tune_thread, stop_event, t,
                   exitStatus, exitCause>>
    /\ UNCHANGED histVars

\* Where main() continues after the homing sequence that follows boot.
AfterBootHoming(s) == IF s = "walk" THEN "menu" ELSE "prompt"

\* A boot_sequence whose loop is left after the second servo.
boot_sequence_short ==
    /\ mainpc = "boot"
    /\ LET servo_id == ORDER(script)[mi]
           config == SERVOS[servo_id]
       IN  \/ \* LX16A(servo_id), set_angle_limits or get_angle_limits raises:
              \* the handler re-raises and the decorator ends the process
              /\ Terminate("hw", HandledExitStatus(script))
              /\ errState' = "pending"
              /\ UNCHANGED <<measureVars, entry>>
              /\ UNCHANGED <<gen, afterStop, script, SERVOS>>
              /\ UNCHANGED <<lastCmd, sess, pendingHome, midTick, homeLog, firstHome, stepLog>>
           \/ \E lim \in Readbacks(config.min_angle, config.max_angle) :
                /\ lim = <<config.min_angle, config.max_angle>> \/ Deviating < MaxDeviating
                /\ SERVOS' = [SERVOS EXCEPT
                                ![servo_id] = BootConfig(script, SERVOS, servo_id, lim[1], lim[2])]
                /\ IF mi < 2
                   THEN /\ mi' = mi + 1
                        /\ UNCHANGED <<mainpc, homeRet, homeLog>>
                   ELSE StartHoming(AfterBootHoming(script))
                /\ UNCHANGED <<measureVars, entry>>
                /\ UNCHANGED <<gen, afterStop, script, walk_thread, fine_tune_thread, stop_event, t,
                               exitStatus, exitCause>>
                /\ UNCHANGED <<lastCmd, sess, errState, pendingHome, midTick, firstHome, stepLog>>

\* One iteration of boot_sequence's loop; main() calls homing_sequence()
\* when the loop is done.
boot_sequence ==
    /\ mainpc = "boot"
    /\ LET servo_id == ORDER(script)[mi]
           config == SERVOS[servo_id]
       IN  \/ \* LX16A(servo_id), set_angle_limits or get_angle_limits raises:
              \* the handler re-raises and the decorator ends the process
              /\ Terminate("hw", HandledExitStatus(script))
              /\ errState' = "pending"
              /\ UNCHANGED <<measureVars, entry>>
              /\ UNCHANGED <<gen, afterStop, script, SERVOS>>
              /\ UNCHANGED <<lastCmd, sess, pendingHome, midTick, homeLog, firstHome, stepLog>>
           \/ \E lim \in Readbacks(config.min_angle, config.max_angle) :
                /\ lim = <<config.min_angle, config.max_angle>> \/ Deviating < MaxDeviating
                /\ SERVOS' = [SERVOS EXCEPT
                                ![servo_id] = BootConfig(script, SERVOS, servo_id, lim[1], lim[2])]
                /\ IF mi < Len(ORDER(script))
                   THEN /\ mi' = mi + 1
                        /\ UNCHANGED <<mainpc, homeRet, homeLog>>
                   ELSE StartHoming(AfterBootHoming(script))
                /\ UNCHANGED <<measureVars, entry>>
                /\ UNCHANGED <<gen, afterStop, script, walk_thread, fine_tune_thread, stop_event, t,
                               exitStatus, exitCause>>
                /\ UNCHANGED <<lastCmd, sess, errState, pendingHome, midTick, firstHome, stepLog>>

\* One iteration of homing_sequence's loop.
homing_sequence ==
    /\ mainpc = "home"
    /\ LET servo_id == ORDER(script)[mi]
           neutral_angle == HomeAngle(script, SERVOS, servo_id)
       IN  \E ok \in BOOLEAN :
             /\ Issue("main", "home", servo_id, neutral_angle, neutral_angle, ok)
             /\ homeLog' = Append(homeLog, <<servo_id, neutral_angle>>)
             /\ IF ~ok
                THEN \* the handler re-raises and the decorator ends the process
                     /\ Terminate("hw", HandledExitStatus(script))
                     /\ UNCHANGED <<pendingHome, firstHome>>
                ELSE IF mi < Len(ORDER(script))
                THEN /\ mi' = mi + 1
                     /\ UNCHANGED <<mainpc, homeRet, walk_thread, fine_tune_thread,
                                    stop_event, t, exitStatus, exitCause,
                                    pendingHome, firstHome>>
                ELSE /\ firstHome' = IF firstHome = <<>> THEN homeLog' ELSE firstHome
                     /\ pendingHome' = FALSE
                     /\ IF homeRet \in {"exit", "eof_exit"}
                        THEN Terminate(IF homeRet = "exit" THEN "normal" ELSE "eof", 0)
                        ELSE /\ mainpc' = homeRet
                             /\ mi' = 1
                             /\ UNCHANGED <<homeRet, walk_thread, fine_tune_thread,
                                            stop_event, t, exitStatus, exitCause>>
             /\ stepLog' = <<>>
             /\ UNCHANGED <<measureVars, entry>>
             /\ UNCHANGED <<gen, afterStop, script, SERVOS, midTick>>

(***************************************************************************)
(* walk.py: the menu of main().                                            *)
(***************************************************************************)

\* What the operator is made to type at the menu of walk.py.
MenuEntries ==
    {<<"1">>, <<"2">>, <<"3">>, <<"4">>, <<" ", "3", " ">>,
     <<>>, <<"0">>, <<"5">>, <<"1", "2">>, <<"x">>}

\* choice = input("Enter your choice (1/2/3/4): ").strip() is c.
Chosen(c) ==
    \E line \in MenuEntries :
        /\ strip(line) = c
        /\ entry' = [prompt |-> "menu", text |-> line]

\* choice == '1' that starts walk() with the Event of the session before.
menu_start_walking_stale ==
    /\ mainpc = "menu"
    /\ Chosen(<<"1">>)
    /\ walk_thread' = [pc |-> "loop", grp |-> "A", i |-> 0, moves |-> <<>>]
    /\ mainpc' = "walk_wait"
    /\ sess' = "clean"
    /\ midTick' = FALSE
    /\ UNCHANGED measureVars
    /\ UNCHANGED <<gen, afterStop, script, SERVOS, mi, homeRet, fine_tune_thread, stop_event, t,
                   exitStatus, exitCause>>
    /\ UNCHANGED <<lastCmd, errState, pendingHome, homeLog, firstHome, stepLog>>

\* choice == '1': a new Event, and walk(stop_event) started in a thread.
menu_start_walking ==
    /\ mainpc = "menu"
    /\ Chosen(<<"1">>)
    /\ stop_event' = FALSE
    /\ walk_thread' = [pc |-> "loop", grp |-> "A", i |-> 0, moves |-> <<>>]
    /\ mainpc' = "walk_wait"
    /\ sess' = "clean"
    /\ midTick' = FALSE
    /\ UNCHANGED measureVars
    /\ UNCHANGED <<gen, afterStop, script, SERVOS, mi, homeRet, fine_tune_thread, t, exitStatus, exitCause>>
    /\ UNCHANGED <<lastCmd, errState, pendingHome, homeLog, firstHome, stepLog>>

\* choice == '2': a new Event, and fine_tune_front_left_leg started in a thread.
menu_fine_tune ==
    /\ mainpc = "menu"
    /\ Chosen(<<"2">>)
    /\ stop_event' = FALSE
    /\ fine_tune_thread' = [pc |-> "loop", dir |-> "up", current |-> 0]
    /\ mainpc' = "ft_wait"
    /\ sess' = "clean"
    /\ UNCHANGED measureVars
    /\ UNCHANGED <<gen, afterStop, script, SERVOS, mi, homeRet, walk_thread, t, exitStatus, exitCause>>
    /\ UNCHANGED <<lastCmd, errState, pendingHome, midTick, homeLog, firstHome, stepLog>>

\* choice == '3': homing_sequence(), then break.
menu_exit ==
    /\ mainpc = "menu"
    /\ Chosen(<<"3">>)
    /\ StartHoming("exit")
    /\ UNCHANGED measureVars
    /\ UNCHANGED <<gen, afterStop, script, SERVOS, walk_thread, fine_tune_thread, stop_event, t,
                   exitStatus, exitCause>>
    /\ UNCHANGED <<lastCmd, sess, errState, pendingHome, midTick, firstHome, stepLog>>

\* choice == '4': walk_step_by_step() on the main thread.
menu_step_by_step ==
    /\ mainpc = "menu"
    /\ Chosen(<<"4">>)
    /\ mainpc' = "step_move"
    /\ mi' = 1
    /\ sess' = "clean"
    /\ stepLog' = <<>>
    /\ UNCHANGED measureVars
    /\ UNCHANGED <<gen, afterStop, script, SERVOS, homeRet, walk_thread, fine_tune_thread, stop_event, t,
                   exitStatus, exitCause>>
    /\ UNCHANGED <<lastCmd, errState, pendingHome, midTick, homeLog, firstHome>>

\* any other choice: "Invalid choice", and the menu again.
menu_invalid ==
    /\ mainpc = "menu"
    /\ \E c \in {strip(line) : line \in MenuEntries} \ {<<"1">>, <<"2">>, <<"3">>, <<"4">>} :
           Chosen(c)
    /\ UNCHANGED <<progVars, histVars, measureVars, gen, afterStop>>

\* EOFError at the menu: homing_sequence(), then break.
menu_eof ==
    /\ mainpc = "menu"
    /\ entry' = NoEntry
    /\ StartHoming("eof_exit")
    /\ UNCHANGED measureVars
    /\ UNCHANGED <<gen, afterStop, script, SERVOS, walk_thread, fine_tune_thread, stop_event, t,
                   exitStatus, exitCause>>
    /\ UNCHANGED <<lastCmd, sess, errState, pendingHome, midTick, firstHome, stepLog>>

(***************************************************************************)
(* walk.py: main() waits for the worker thread of a session.               *)
(***************************************************************************)

\* The thread main() waits for at mainpc.
Awaited(pc) == IF pc \in {"walk_wait", "walk_join"} THEN walk_thread ELSE fine_tune_thread

\* "while thread.is_alive(): thread.join(timeout=1)" is left, or
\* thread.join() returns.
JoinReturned_timeout(thread) == TRUE

JoinReturned(thread) == ~is_alive(thread)

\* The wait loop ends without an interrupt, or the join after an interrupt
\* returns: homing_sequence() is called.
main_join ==
    /\ mainpc \in {"walk_wait", "walk_join", "ft_wait", "ft_join"}
    /\ JoinReturned(Awaited(mainpc))
    /\ StartHoming("menu")
    /\ afterStop' = <<>>
    /\ UNCHANGED <<measureVars, entry>>
    /\ UNCHANGED <<gen, script, SERVOS, walk_thread, fine_tune_thread, stop_event, t,
                   exitStatus, exitCause>>
    /\ UNCHANGED <<lastCmd, sess, errState, pendingHome, midTick, firstHome, stepLog>>

\* KeyboardInterrupt in the wait loop: stop_event.set(), then thread.join().
main_interrupt ==
    /\ mainpc \in {"walk_wait", "ft_wait"}
    /\ stop_event' = TRUE
    /\ mainpc' = IF mainpc = "walk_wait" THEN "walk_join" ELSE "ft_join"
    /\ pendingHome' = (pendingHome \/ mainpc = "walk_wait")
    /\ UNCHANGED <<measureVars, entry>>
    /\ UNCHANGED <<gen, afterStop, script, SERVOS, mi, homeRet, walk_thread, fine_tune_thread, t,
                   exitStatus, exitCause>>
    /\ UNCHANGED <<lastCmd, sess, errState, midTick, homeLog, firstHome, stepLog>>

\* KeyboardInterrupt where nothing catches it (it is no Exception, so
\* handle_disconnection lets it through): the process ends.
keyboard_interrupt_uncaught ==
    /\ mainpc \in {"configure", "boot", "home", "menu", "walk_join", "ft_join",
                   "step_move", "step_input", "prompt"}
    /\ Terminate("sigint", SigintExitStatus)
    /\ UNCHANGED <<measureVars, entry>>
    /\ UNCHANGED <<gen, afterStop, script, SERVOS>>
    /\ UNCHANGED histVars

(***************************************************************************)
(* walk.py: walk(stop_event), in its thread.                               *)
(***************************************************************************)

step_size == 500

Group(grp) == IF grp = "A" THEN GROUP_A ELSE GROUP_B

\* The moves of lift_legs(group), in order.
LiftMoves(S, group) ==
    LET tops == SelectSeq(group, IsTop)
    IN  [k \in 1..Len(tops) |->
            [op |-> "lift", servo |-> tops[k], angle |-> S[tops[k]].lift_up]]

\* The moves of lower_legs(group), in order.
LowerMoves(S, group) ==
    LET tops == SelectSeq(group, IsTop)
    IN  [k \in 1..Len(tops) |->
            [op |-> "lower", servo |-> tops[k], angle |-> S[tops[k]].lift_down]]

\* An angle_sequence that always steps upward.
angle_sequence_upward(S, servo_id, size) ==
    generate_angles(S[servo_id].swing_backward, S[servo_id].swing_forward, size)

\* angle_sequence of one Bottom servo in swing_legs_forward.
angle_sequence(S, servo_id, size) ==
    LET swing_backward_angle == S[servo_id].swing_backward
        swing_forward_angle == S[servo_id].swing_forward
        step == IF swing_backward_angle < swing_forward_angle THEN size ELSE -size
    IN  generate_angles(swing_backward_angle, swing_forward_angle, step)

\* The moves of swing_legs_forward(group, step_size, delay), in order: for
\* each step, every servo of the group that still has an angle at that step.
SwingMoves(S, group, size) ==
    LET bottoms == SelectSeq(group, IsBottom)
        seqs == [k \in 1..Len(bottoms) |-> angle_sequence(S, bottoms[k], size)]
        Longest[k \in 0..Len(bottoms)] ==
            IF k = 0 THEN 0 ELSE Max(Longest[k - 1], Len(seqs[k]))
        max_steps == Longest[Len(bottoms)]
        Row(step) ==
            LET Has(k) == step <= Len(seqs[k])
                ks == SelectSeq([k \in 1..Len(bottoms) |-> k], Has)
            IN  [j \in 1..Len(ks) |->
                    [op |-> "swing", servo |-> bottoms[ks[j]], angle |-> seqs[ks[j]][step]]]
        Rows[step \in 0..max_steps] ==
            IF step = 0 THEN <<>> ELSE Rows[step - 1] \o Row(step)
    IN  Rows[max_steps]

\* The moves of one function of a group movement.
StageMoves(S, stage, grp) ==
    CASE stage = "lift" -> LiftMoves(S, Group(grp))
      [] stage = "swing" -> SwingMoves(S, Group(grp), step_size)
      [] stage = "lower" -> LowerMoves(S, Group(grp))

\* A walk() that leaves the legs up: no lower_legs after the swing.
StageAfter_raised(stage) ==
    CASE stage = "lift" -> "swing"
      [] stage = "swing" -> "end"
      [] stage = "lower" -> "end"

\* walk() calls lift_legs, swing_legs_forward and lower_legs in this order.
StageAfter(stage) ==
    CASE stage = "lift" -> "swing"
      [] stage = "swing" -> "lower"
      [] stage = "lower" -> "end"

\* The thread as it enters the function stage of grp's movement: at the
\* function's first move, or, when the function has no move to make, in the
\* function after it; after lower_legs (and time.sleep(1.5)) at group B's
\* check or at the loop condition.  swing_legs_forward computes its angle
\* sequences when it is entered and keeps them (moves).
RECURSIVE Enter(_, _, _)
Enter(S, stage, grp) ==
    IF stage = "end"
    THEN IF grp = "A"
         THEN [pc |-> "check", grp |-> "B", i |-> 0, moves |-> <<>>]
         ELSE [pc |-> "loop", grp |-> "A", i |-> 0, moves |-> <<>>]
    ELSE IF StageMoves(S, stage, grp) = <<>>
         THEN Enter(S, StageAfter(stage), grp)
         ELSE [pc |-> stage, grp |-> grp, i |-> 1,
               moves |-> IF stage = "swing" THEN StageMoves(S, stage, grp) ELSE <<>>]

\* "while not stop_event.is_set():"
walk_loop ==
    /\ walk_thread.pc = "loop"
    /\ walk_thread' = IF stop_event
                      THEN Ended(NoThread, walk_thread)
                      ELSE [walk_thread EXCEPT !.pc = "check", !.grp = "A"]
    /\ UNCHANGED <<measureVars, entry>>
    /\ UNCHANGED <<gen, afterStop, script, SERVOS, mainpc, mi, homeRet, fine_tune_thread, stop_event, t,
                   exitStatus, exitCause>>
    /\ UNCHANGED histVars

\* A walk() that starts a group's movement without looking at stop_event.
walk_check_unchecked ==
    /\ walk_thread.pc = "check"
    /\ walk_thread' = Enter(SERVOS, "lift", walk_thread.grp)
    /\ UNCHANGED <<measureVars, entry>>
    /\ UNCHANGED <<gen, afterStop, script, SERVOS, mainpc, mi, homeRet, fine_tune_thread, stop_event, t,
                   exitStatus, exitCause>>
    /\ UNCHANGED histVars

\* "if stop_event.is_set(): break" before a group's movement.
walk_check ==
    /\ walk_thread.pc = "check"
    /\ walk_thread' = IF stop_event
                      THEN Ended(NoThread, walk_thread)
                      ELSE Enter(SERVOS, "lift", walk_thread.grp)
    /\ UNCHANGED <<measureVars, entry>>
    /\ UNCHANGED <<gen, afterStop, script, SERVOS, mainpc, mi, homeRet, fine_tune_thread, stop_event, t,
                   exitStatus, exitCause>>
    /\ UNCHANGED histVars

\* A servo.move whose exception goes through the function to walk(), which
\* catches it and returns.
WalkMove_propagating(stage) ==
    /\ walk_thread.pc = stage
    /\ LET moves == IF stage = "swing" THEN walk_thread.moves
                    ELSE StageMoves(SERVOS, stage, walk_thread.grp)
           m == moves[walk_thread.i]
       IN  \E ok \in BOOLEAN :
             /\ Issue("walk", stage, m.servo, m.angle, m.angle, ok)
             /\ walk_thread' = IF ~ok THEN Ended(NoThread, walk_thread)
                               ELSE IF walk_thread.i < Len(moves)
                               THEN [walk_thread EXCEPT !.i = @ + 1]
                               ELSE Enter(SERVOS, StageAfter(stage), walk_thread.grp)
             /\ midTick' = (walk_thread'.pc \in {"lift", "swing", "lower"})
    /\ UNCHANGED <<measureVars, entry>>
    /\ UNCHANGED <<gen, afterStop, script, SERVOS, mainpc, mi, homeRet, fine_tune_thread, stop_event, t,
                   exitStatus, exitCause>>
    /\ UNCHANGED <<pendingHome, homeLog, firstHome, stepLog>>

\* One servo.move of lift_legs, swing_legs_forward or lower_legs.  When it
\* raises, handle_disconnection catches the exception in the thread and the
\* function returns None to walk(), which goes on with the next function.
WalkMove(stage) ==
    /\ walk_thread.pc = stage
    /\ LET moves == IF stage = "swing" THEN walk_thread.moves
                    ELSE StageMoves(SERVOS, stage, walk_thread.grp)
           m == moves[walk_thread.i]
       IN  \E ok \in BOOLEAN :
             /\ Issue("walk", stage, m.servo, m.angle, m.angle, ok)
             /\ walk_thread' = IF ok /\ walk_thread.i < Len(moves)
                               THEN [walk_thread EXCEPT !.i = @ + 1]
                               ELSE Enter(SERVOS, StageAfter(stage), walk_thread.grp)
             /\ midTick' = (walk_thread'.pc \in {"lift", "swing", "lower"})
    /\ UNCHANGED <<measureVars, entry>>
    /\ UNCHANGED <<gen, afterStop, script, SERVOS, mainpc, mi, homeRet, fine_tune_thread, stop_event, t,
                   exitStatus, exitCause>>
    /\ UNCHANGED <<pendingHome, homeLog, firstHome, stepLog>>

lift_legs ==
    /\ walk_thread.pc = "lift"
    /\ WalkMove("lift")

swing_legs_forward ==
    /\ walk_thread.pc = "swing"
    /\ WalkMove("swing")

lower_legs ==
    /\ walk_thread.pc = "lower"
    /\ WalkMove("lower")

(***************************************************************************)
(* walk.py: fine_tune_front_left_leg(stop_event), in its thread.           *)
(***************************************************************************)

fine_tune_step == 500

\* math.ceil of an angle
ceil(x) == ((x + 99) \div 100) * 100

lift_angle_bottom(S) == S[3].max_angle

lower_angle_bottom(S) == ceil(S[3].min_angle)

\* Has the generator of the for loop in progress another angle to yield:
\* generate_angles(lower_angle_bottom, lift_angle_bottom, step) going up,
\* generate_angles(lift_angle_bottom, lower_angle_bottom, -step) going down.
Yields(S, dir, current) ==
    IF dir = "up" THEN current <= lift_angle_bottom(S) ELSE current >= lower_angle_bottom(S)

\* angle_bottom after "min(angle_bottom, max_angle)" (up) or
\* "max(angle_bottom, min_angle)" (down).
FineTuneBottom(S, dir, current) ==
    IF dir = "up" THEN Min(current, S[3].max_angle) ELSE Max(current, S[3].min_angle)

\* angle_top without the two lines that bring it into servo 4's limits.
FineTuneTop_offset(S, angle_bottom) == angle_bottom - 5000

\* angle_top for the angle_bottom commanded.
FineTuneTop(S, angle_bottom) ==
    Min(Max(angle_bottom - 5000, S[4].min_angle), S[4].max_angle)

\* The thread after the for loop of dir is left (exhausted or break).
AfterFor(dir) ==
    IF dir = "up"
    THEN [fine_tune_thread EXCEPT !.pc = "mid"]
    ELSE [fine_tune_thread EXCEPT !.pc = "loop"]

\* "while not stop_event.is_set():"
fine_tune_loop ==
    /\ fine_tune_thread.pc = "loop"
    /\ fine_tune_thread' =
           IF stop_event
           THEN Ended(NoFineTune, fine_tune_thread)
           ELSE [pc |-> "next", dir |-> "up", current |-> lower_angle_bottom(SERVOS)]
    /\ UNCHANGED <<measureVars, entry>>
    /\ UNCHANGED <<gen, afterStop, script, SERVOS, mainpc, mi, homeRet, walk_thread, stop_event, t,
                   exitStatus, exitCause>>
    /\ UNCHANGED histVars

\* A for loop that never looks at the stop flag.
fine_tune_next_unchecked ==
    /\ fine_tune_thread.pc = "next"
    /\ fine_tune_thread' =
           IF Yields(SERVOS, fine_tune_thread.dir, fine_tune_thread.current)
           THEN [fine_tune_thread EXCEPT !.pc = "bottom"]
           ELSE AfterFor(fine_tune_thread.dir)
    /\ UNCHANGED <<measureVars, entry>>
    /\ UNCHANGED <<gen, afterStop, script, SERVOS, mainpc, mi, homeRet, walk_thread, stop_event, t,
                   exitStatus, exitCause>>
    /\ UNCHANGED histVars

\* The for loop asks its generator for the next angle, and
\* "if stop_event.is_set(): break".
fine_tune_next ==
    /\ fine_tune_thread.pc = "next"
    /\ fine_tune_thread' =
           IF Yields(SERVOS, fine_tune_thread.dir, fine_tune_thread.current) /\ ~stop_event
           THEN [fine_tune_thread EXCEPT !.pc = "bottom"]
           ELSE AfterFor(fine_tune_thread.dir)
    /\ UNCHANGED <<measureVars, entry>>
    /\ UNCHANGED <<gen, afterStop, script, SERVOS, mainpc, mi, homeRet, walk_thread, stop_event, t,
                   exitStatus, exitCause>>
    /\ UNCHANGED histVars

\* servo_bottom.move(angle_bottom); when it raises: stop_event.set(), break.
fine_tune_bottom ==
    /\ fine_tune_thread.pc = "bottom"
    /\ LET angle_bottom == FineTuneBottom(SERVOS, fine_tune_thread.dir, fine_tune_thread.current)
       IN  \E ok \in BOOLEAN :
             /\ Issue("fine_tune", "fine_tune", 3, angle_bottom, fine_tune_thread.current, ok)
             /\ fine_tune_thread' = IF ok THEN [fine_tune_thread EXCEPT !.pc = "top"]
                                    ELSE AfterFor(fine_tune_thread.dir)
             /\ stop_event' = (stop_event \/ ~ok)
    /\ afterStop' = IF mainpc = "ft_join" THEN Append(afterStop, 3) ELSE afterStop
    /\ UNCHANGED <<measureVars, entry>>
    /\ UNCHANGED <<gen, script, SERVOS, mainpc, mi, homeRet, walk_thread, t, exitStatus, exitCause>>
    /\ UNCHANGED <<pendingHome, midTick, homeLog, firstHome, stepLog>>

\* servo_top.move(angle_top); when it raises: stop_event.set(), break.
\* Otherwise time.sleep(delay_time), and the generator steps on.
fine_tune_top ==
    /\ fine_tune_thread.pc = "top"
    /\ LET angle_bottom == FineTuneBottom(SERVOS, fine_tune_thread.dir, fine_tune_thread.current)
           angle_top == FineTuneTop(SERVOS, angle_bottom)
       IN  \E ok \in BOOLEAN :
             /\ Issue("fine_tune", "fine_tune", 4, angle_top, angle_bottom - 5000, ok)
             /\ fine_tune_thread' =
                    IF ok
                    THEN [fine_tune_thread EXCEPT
                            !.pc = "next",
                            !.current = IF fine_tune_thread.dir = "up"
                                        THEN @ + fine_tune_step ELSE @ - fine_tune_step]
                    ELSE AfterFor(fine_tune_thread.dir)
             /\ stop_event' = (stop_event \/ ~ok)
    /\ afterStop' = IF mainpc = "ft_join" THEN Append(afterStop, 4) ELSE afterStop
    /\ UNCHANGED <<measureVars, entry>>
    /\ UNCHANGED <<gen, script, SERVOS, mainpc, mi, homeRet, walk_thread, t, exitStatus, exitCause>>
    /\ UNCHANGED <<pendingHome, midTick, homeLog, firstHome, stepLog>>

\* "if stop_event.is_set(): break" between the two for loops.
fine_tune_mid ==
    /\ fine_tune_thread.pc = "mid"
    /\ fine_tune_thread' =
           IF stop_event
           THEN Ended(NoFineTune, fine_tune_thread)
           ELSE [pc |-> "next", dir |-> "down", current |-> lift_angle_bottom(SERVOS)]
    /\ UNCHANGED <<measureVars, entry>>
    /\ UNCHANGED <<gen, afterStop, script, SERVOS, mainpc, mi, homeRet, walk_thread, stop_event, t,
                   exitStatus, exitCause>>
    /\ UNCHANGED histVars

(***************************************************************************)
(* walk_step_by_step() of walk.py and of the two step-by-step scripts, and *)
(* the "Press Enter to start" prompt.                                      *)
(***************************************************************************)

StepCmd(servo_id, raw, angle, prompt) ==
    [servo |-> servo_id, raw |-> raw, angle |-> angle, prompt |-> prompt]

\* Step-by-step mode that runs, in every script, the three moves per leg of
\* walk.py: no return of the bottom servo, no clamping.
StepMoves_three(s, S) ==
    LET walk_leg(k) ==
            <<StepCmd(LEGS[k].top_servo_id, S[LEGS[k].top_servo_id].lift_up,
                      S[LEGS[k].top_servo_id].lift_up, TRUE),
              StepCmd(LEGS[k].bottom_servo_id, S[LEGS[k].bottom_servo_id].swing_forward,
                      S[LEGS[k].bottom_servo_id].swing_forward, TRUE),
              StepCmd(LEGS[k].top_servo_id, S[LEGS[k].top_servo_id].lift_down,
                      S[LEGS[k].top_servo_id].lift_down, TRUE)>>
    IN  walk_leg(1) \o walk_leg(2) \o walk_leg(3) \o walk_leg(4)

\* The moves of walk_step_by_step in order; prompt: input() follows the move.
StepMoves(s, S) ==
    LET Leg(k) == LEGS[k]
        C(id, raw, prompt) == StepCmd(id, raw, clamp_angle(S, id, raw), prompt)
        walk_leg(k) ==
            <<StepCmd(Leg(k).top_servo_id, S[Leg(k).top_servo_id].lift_up,
                      S[Leg(k).top_servo_id].lift_up, TRUE),
              StepCmd(Leg(k).bottom_servo_id, S[Leg(k).bottom_servo_id].swing_forward,
                      S[Leg(k).bottom_servo_id].swing_forward, TRUE),
              StepCmd(Leg(k).top_servo_id, S[Leg(k).top_servo_id].lift_down,
                      S[Leg(k).top_servo_id].lift_down, TRUE)>>
        single_leg(k) ==
            <<C(Leg(k).top_servo_id, S[Leg(k).top_servo_id].lift_up, TRUE),
              C(Leg(k).bottom_servo_id, S[Leg(k).bottom_servo_id].swing_forward, TRUE),
              C(Leg(k).top_servo_id, S[Leg(k).top_servo_id].neutral_angle, TRUE),
              C(Leg(k).bottom_servo_id, S[Leg(k).bottom_servo_id].neutral_angle, TRUE)>>
        \* leg_pairs: Front Left with Back Right, Front Right with Back Left
        pair(a, b) ==
            <<C(Leg(a).top_servo_id, S[Leg(a).top_servo_id].lift_up, FALSE),
              C(Leg(b).top_servo_id, S[Leg(b).top_servo_id].lift_up, TRUE),
              C(Leg(a).bottom_servo_id, S[Leg(a).bottom_servo_id].swing_forward, FALSE),
              C(Leg(b).bottom_servo_id, S[Leg(b).bottom_servo_id].swing_forward, TRUE),
              C(Leg(a).top_servo_id, S[Leg(a).top_servo_id].lift_down, FALSE),
              C(Leg(b).top_servo_id, S[Leg(b).top_servo_id].lift_down, TRUE),
              C(Leg(a).bottom_servo_id, S[Leg(a).bottom_servo_id].neutral_angle, FALSE),
              C(Leg(b).bottom_servo_id, S[Leg(b).bottom_servo_id].neutral_angle, TRUE)>>
    IN  CASE s = "walk" -> walk_leg(1) \o walk_leg(2) \o walk_leg(3) \o walk_leg(4)
          [] s = "single" -> single_leg(1) \o single_leg(2) \o single_leg(3) \o single_leg(4)
          [] s = "dual" -> pair(1, 4) \o pair(2, 3)

\* The exit status when a call inside walk_step_by_step raises an Exception:
\* walk.py wraps the function in handle_disconnection (quit() on the main
\* thread); in the step-by-step scripts nothing catches it.
StepExitStatus(s) == IF s = "walk" THEN HandledExitStatus(s) ELSE UncaughtExitStatus

\* One servo.move of walk_step_by_step.
walk_step_by_step ==
    /\ mainpc = "step_move"
    /\ LET cmd == StepMoves(script, SERVOS)[mi]
       IN  \E ok \in BOOLEAN :
             /\ Issue("main", "step", cmd.servo, cmd.angle, cmd.raw, ok)
             /\ stepLog' = Append(stepLog, <<"move", cmd.servo, cmd.angle>>)
             /\ IF ~ok
                THEN Terminate("hw", StepExitStatus(script))
                ELSE /\ IF cmd.prompt
                        THEN mainpc' = "step_input" /\ UNCHANGED mi
                        ELSE mi' = mi + 1 /\ UNCHANGED mainpc
                     /\ UNCHANGED <<homeRet, walk_thread, fine_tune_thread, stop_event, t,
                                    exitStatus, exitCause>>
    /\ UNCHANGED <<measureVars, entry>>
    /\ UNCHANGED <<gen, afterStop, script, SERVOS>>
    /\ UNCHANGED <<pendingHome, midTick, homeLog, firstHome>>

\* input() returns: the next move, or, after the last one, homing_sequence()
\* (called by main() in walk.py, by walk_step_by_step itself in the others,
\* after which main() returns).
step_input_enter ==
    /\ mainpc = "step_input"
    /\ stepLog' = Append(stepLog, <<"confirm", 0, 0>>)
    /\ IF mi < Len(StepMoves(script, SERVOS))
       THEN /\ mainpc' = "step_move"
            /\ mi' = mi + 1
            /\ UNCHANGED <<homeRet, homeLog>>
       ELSE StartHoming(IF script = "walk" THEN "menu" ELSE "exit")
    /\ UNCHANGED <<measureVars, entry>>
    /\ UNCHANGED <<gen, afterStop, script, SERVOS, walk_thread, fine_tune_thread, stop_event, t,
                   exitStatus, exitCause>>
    /\ UNCHANGED <<lastCmd, sess, errState, pendingHome, midTick, firstHome>>

\* input() raises EOFError, an Exception.
step_input_eof ==
    /\ mainpc = "step_input"
    /\ Terminate("eof", StepExitStatus(script))
    /\ UNCHANGED <<measureVars, entry>>
    /\ UNCHANGED <<gen, afterStop, script, SERVOS>>
    /\ UNCHANGED histVars

\* input("Press Enter to start...") returns: walk_smoothly() or
\* walk_step_by_step() starts.
prompt_enter ==
    /\ mainpc = "prompt"
    /\ mainpc' = IF script = "smooth" THEN "smooth" ELSE "step_move"
    /\ mi' = 1
    /\ t' = 0
    /\ midTick' = FALSE
    /\ sess' = "clean"
    /\ stepLog' = <<>>
    /\ UNCHANGED <<measureVars, entry>>
    /\ UNCHANGED <<gen, afterStop, script, SERVOS, homeRet, walk_thread, fine_tune_thread, stop_event,
                   exitStatus, exitCause>>
    /\ UNCHANGED <<lastCmd, errState, pendingHome, homeLog, firstHome>>

\* input("Press Enter to start...") raises EOFError: nothing catches it.
prompt_eof ==
    /\ mainpc = "prompt"
    /\ Terminate("eof", UncaughtExitStatus)
    /\ UNCHANGED <<measureVars, entry>>
    /\ UNCHANGED <<gen, afterStop, script, SERVOS>>
    /\ UNCHANGED histVars

(***************************************************************************)
(* walk_smooth.py: walk_smoothly().                                        *)
(***************************************************************************)

\* pi, in units of 0.005 rad
PI == 628

\* sin and cos are in thousandths
SinScale == 1000

\* sin over half a period, y in 0..PI (Bhaskara's approximation, exact at 0,
\* PI/6, PI/2, 5 PI/6 and PI).
HalfWave(y) == (16 * y * (PI - y) * SinScale) \div (5 * PI * PI - 4 * y * (PI - y))

sin(x) ==
    LET y == x % (2 * PI)
    IN  IF y <= PI THEN HalfWave(y) ELSE -HalfWave(y - PI)

\* A cosine that is in phase with the sine.
cos_inphase(x) == sin(x)

cos(x) == sin(x + PI \div 2)

\* in units of 0.5 rad/s
FREQUENCY == 3

\* in units of 0.01 s
delta_t == 5

\* walk_smoothly is followed for this many ticks.
MaxTicks == 84

\* A shift that pairs the legs of one side instead of the diagonals.
phase_shift_lateral(leg_name) ==
    IF leg_name \in {"Front Left", "Back Left"} THEN 0
    ELSE IF leg_name \in {"Front Right", "Back Right"} THEN PI
    ELSE 0

phase_shift(leg_name) ==
    IF leg_name \in {"Front Left", "Back Right"} THEN 0
    ELSE IF leg_name \in {"Front Right", "Back Left"} THEN PI
    ELSE 0

\* A waveform whose amplitude is the whole distance between the two
\* extremes, not half of it.
Waveform_whole(amplitude, wave, offset) ==
    (2 * amplitude * wave + offset * SinScale) \div (2 * SinScale)

\* amplitude * wave + offset, in hundredths of a degree.
Waveform(amplitude, wave, offset) == (amplitude * wave + offset * SinScale) \div (2 * SinScale)

\* A phase that takes half the shift of the leg.
leg_phase_half(now, shift) == now + shift \div 2

\* "phase = t + phase_shift"
leg_phase(now, shift) == now + shift

\* "top_angle = top_amplitude * cos(phase) + top_offset"
top_angle(S, servo_id, phase) ==
    Waveform(S[servo_id].AMPLITUDE, cos(phase), S[servo_id].OFFSET)

\* "bottom_angle = bottom_amplitude * sin(phase) + bottom_offset"
bottom_angle(S, servo_id, phase) ==
    Waveform(S[servo_id].AMPLITUDE, sin(phase), S[servo_id].OFFSET)

\* Command k (1..8) of the tick at time now: for each leg of LEGS its top
\* servo, then its bottom servo.
SmoothCmd(S, now, k) ==
    LET leg == LEGS[(k + 1) \div 2]
        phase == leg_phase(now, phase_shift(leg.name))
    IN  IF k % 2 = 1
        THEN [servo |-> leg.top_servo_id,
              raw |-> top_angle(S, leg.top_servo_id, phase),
              angle |-> clamp_angle(S, leg.top_servo_id,
                                    top_angle(S, leg.top_servo_id, phase))]
        ELSE [servo |-> leg.bottom_servo_id,
              raw |-> bottom_angle(S, leg.bottom_servo_id, phase),
              angle |-> clamp_angle(S, leg.bottom_servo_id,
                                    bottom_angle(S, leg.bottom_servo_id, phase))]

\* One servo.move of the tick.  walk_smoothly catches KeyboardInterrupt
\* only: an exception of the move leaves main() uncaught.
walk_smoothly ==
    /\ mainpc = "smooth"
    /\ LET cmd == SmoothCmd(SERVOS, t, mi)
       IN  \E ok \in BOOLEAN :
             /\ Issue("main", "smooth", cmd.servo, cmd.angle, cmd.raw, ok)
             /\ IF ~ok
                THEN /\ Terminate("hw", UncaughtExitStatus)
                     /\ UNCHANGED midTick
                ELSE /\ IF mi < 2 * Len(LEGS)
                        THEN mi' = mi + 1 /\ midTick' = TRUE /\ UNCHANGED mainpc
                        ELSE mainpc' = "smooth_sleep" /\ midTick' = FALSE /\ UNCHANGED mi
                     /\ UNCHANGED <<homeRet, walk_thread, fine_tune_thread, stop_event, t,
                                    exitStatus, exitCause>>
    /\ UNCHANGED <<measureVars, entry>>
    /\ UNCHANGED <<gen, afterStop, script, SERVOS>>
    /\ UNCHANGED <<pendingHome, homeLog, firstHome, stepLog>>

\* A tick that advances the phase by delta_t alone.
walk_smoothly_tick_unscaled ==
    /\ mainpc = "smooth_sleep"
    /\ t < MaxTicks * FREQUENCY * delta_t
    /\ t' = t + delta_t
    /\ mainpc' = "smooth"
    /\ mi' = 1
    /\ UNCHANGED <<measureVars, entry>>
    /\ UNCHANGED <<gen, afterStop, script, SERVOS, homeRet, walk_thread, fine_tune_thread, stop_event,
                   exitStatus, exitCause>>
    /\ UNCHANGED histVars

\* time.sleep(delta_t); t += FREQUENCY * delta_t
walk_smoothly_tick ==
    /\ mainpc = "smooth_sleep"
    /\ t < MaxTicks * FREQUENCY * delta_t
    /\ t' = t + FREQUENCY * delta_t
    /\ mainpc' = "smooth"
    /\ mi' = 1
    /\ UNCHANGED <<measureVars, entry>>
    /\ UNCHANGED <<gen, afterStop, script, SERVOS, homeRet, walk_thread, fine_tune_thread, stop_event,
                   exitStatus, exitCause>>
    /\ UNCHANGED histVars

\* KeyboardInterrupt anywhere in the loop: "Walking interrupted by user.",
\* "Stopped." (the homing of the finally block is commented out), and main()
\* returns.
walk_smoothly_interrupt ==
    /\ mainpc \in {"smooth", "smooth_sleep"}
    /\ Terminate("interrupt", 0)
    /\ pendingHome' = TRUE
    /\ UNCHANGED <<measureVars, entry>>
    /\ UNCHANGED <<gen, afterStop, script, SERVOS>>
    /\ UNCHANGED <<lastCmd, sess, errState, midTick, homeLog, firstHome, stepLog>>

(***************************************************************************)
(* measure.py: the module-level initialisation and the menu of main().     *)
(***************************************************************************)

\* config.get("min_angle", "Not recorded"): the key is not in the dict.
NotRecorded == -1

\* measure.py's table holds names only; the recordings are added to it.
SERVOS_measure ==
    [servo_id \in ServoIds |->
        [min_angle |-> NotRecorded, max_angle |-> NotRecorded,
         neutral_angle |-> NotRecorded]]

\* What the operator is made to type at the prompts of measure.py.
MeasureMenuEntries ==
    {<<"1">>, <<"2">>, <<"3">>, <<"4">>, <<"5">>, <<"6">>,
     <<>>, <<"7">>, <<" ", "1">>, <<"x">>}

ServoIdEntries ==
    {<<"3">>, <<" ", "8">>,
     <<>>, <<"0">>, <<"9">>, <<"-", "3">>, <<"3", ".", "0">>, <<"x">>}

AngleEntries ==
    {<<"9", "0">>, <<"2", "4", "0">>,
     <<>>, <<"x">>, <<"n", "a", "n">>, <<"-", "1">>, <<"2", "4", "0", ".", "5">>}

ConfirmEntries ==
    {<<>>, <<"c", "a", "n", "c", "e", "l">>, <<"C", "a", "n", "c", "e", "l">>,
     <<"n", "o">>}

\* What servo.get_physical_angle() can return: the readings that are
\* recorded are followed for one position of the rig.
Positions == {15000}

\* The process of measure.py ends: the locals of main() die with it.
MeasureExit(cause, status) ==
    /\ Terminate(cause, status)
    /\ choice' = <<>>
    /\ selected_servo_id' = None
    /\ move_angle' = 0

\* The "for servo_id in SERVOS" at the top of measure.py: LX16A(servo_id) and
\* set_angle_limits(0.0, 240.0); sys.exit(1) if either raises.
measure_init ==
    /\ script = "measure"
    /\ mainpc = "init"
    /\ \E ok \in BOOLEAN :
           IF ok
           THEN /\ mainpc' = IF mi = 8 THEN "measure_menu" ELSE "init"
                /\ mi' = IF mi = 8 THEN 0 ELSE mi + 1
                /\ UNCHANGED <<homeRet, walk_thread, fine_tune_thread, stop_event, t,
                               exitStatus, exitCause>>
                /\ UNCHANGED measureVars
           ELSE MeasureExit("hw", 1)
    /\ UNCHANGED <<gen, afterStop, script, SERVOS, entry>>
    /\ UNCHANGED histVars

\* main() goes back to the top of its loop, where choice is read anew.
ToMenu ==
    /\ mainpc' = "measure_menu"
    /\ choice' = <<>>
    /\ move_angle' = 0

\* Choices 3, 4 and 5 with a servo: get_physical_angle() and the recording
\* of what it returns, or its exception caught and reported.
RecordAngle(servo_id, c) ==
    \/ UNCHANGED SERVOS
    \/ \E a \in Positions :
           SERVOS' = CASE c = <<"3">> -> [SERVOS EXCEPT ![servo_id].min_angle = a]
                       [] c = <<"4">> -> [SERVOS EXCEPT ![servo_id].max_angle = a]
                       [] c = <<"5">> -> [SERVOS EXCEPT ![servo_id].neutral_angle = a]

\* choice = input("Enter your choice: ") and the branch it selects, up to
\* the next input() or the end of the loop body.
measure_menu ==
    /\ mainpc = "measure_menu"
    /\ \E line \in MeasureMenuEntries :
           /\ entry' = [prompt |-> "menu", text |-> line]
           /\ CASE line = <<"1">> ->
                     /\ mainpc' = "servo_id"
                     /\ choice' = line
                     /\ UNCHANGED <<SERVOS, selected_servo_id, move_angle, exitStatus,
                                    exitCause, mi, homeRet, walk_thread,
                                    fine_tune_thread, stop_event, t>>
                [] line = <<"2">> ->
                     /\ mainpc' = IF selected_servo_id = None THEN "servo_id" ELSE "angle"
                     /\ choice' = line
                     /\ UNCHANGED <<SERVOS, selected_servo_id, move_angle, exitStatus,
                                    exitCause, mi, homeRet, walk_thread,
                                    fine_tune_thread, stop_event, t>>
                [] line \in {<<"3">>, <<"4">>, <<"5">>} ->
                     /\ IF selected_servo_id = None
                        THEN /\ mainpc' = "servo_id"
                             /\ choice' = line
                             /\ UNCHANGED <<SERVOS, move_angle>>
                        ELSE /\ RecordAngle(selected_servo_id, line)
                             /\ ToMenu
                     /\ UNCHANGED <<selected_servo_id, exitStatus, exitCause, mi,
                                    homeRet, walk_thread, fine_tune_thread,
                                    stop_event, t>>
                [] line = <<"6">> ->
                     /\ MeasureExit("quit", 0)
                     /\ UNCHANGED SERVOS
                [] OTHER ->
                     /\ ToMenu
                     /\ UNCHANGED <<SERVOS, selected_servo_id, exitStatus, exitCause,
                                    mi, homeRet, walk_thread, fine_tune_thread,
                                    stop_event, t>>
    /\ UNCHANGED <<gen, afterStop, script>>
    /\ UNCHANGED histVars

\* servo_id_input = input("Enter servo ID ...") of choices 1 to 5.
measure_servo_id ==
    /\ mainpc = "servo_id"
    /\ \E line \in ServoIdEntries :
           LET servo_id == int(line)
           IN  /\ entry' = [prompt |-> "servo_id", text |-> line]
               /\ IF servo_id.ok /\ servo_id.val \in DOMAIN SERVOS
                  THEN /\ selected_servo_id' = servo_id.val
                       /\ CASE choice = <<"1">> -> ToMenu /\ UNCHANGED SERVOS
                            [] choice = <<"2">> ->
                                 /\ mainpc' = "angle"
                                 /\ UNCHANGED <<SERVOS, choice, move_angle>>
                            [] OTHER ->
                                 /\ RecordAngle(servo_id.val, choice)
                                 /\ ToMenu
                  ELSE /\ ToMenu
                       /\ UNCHANGED <<SERVOS, selected_servo_id>>
    /\ UNCHANGED <<gen, afterStop, script, mi, homeRet, walk_thread, fine_tune_thread, stop_event, t,
                   exitStatus, exitCause>>
    /\ UNCHANGED histVars

\* angle_input = input("Enter angle to move servo to (0-240 degrees): ")
measure_angle ==
    /\ mainpc = "angle"
    /\ \E line \in AngleEntries :
           LET a == float(line)
           IN  /\ entry' = [prompt |-> "angle", text |-> line]
               /\ IF a.ok /\ ~a.nan /\ 0 <= a.val /\ a.val <= 24000
                  THEN /\ mainpc' = "confirm"
                       /\ move_angle' = a.val
                       /\ UNCHANGED choice
                  ELSE ToMenu
    /\ UNCHANGED <<gen, afterStop, script, SERVOS, selected_servo_id, mi, homeRet, walk_thread,
                   fine_tune_thread, stop_event, t, exitStatus, exitCause>>
    /\ UNCHANGED histVars

\* confirmation = input("Confirm moving ..."): servo.move(angle) unless the
\* line is cancel in any case of letters; an exception of move is reported.
measure_confirm ==
    /\ mainpc = "confirm"
    /\ \E line \in ConfirmEntries :
           /\ entry' = [prompt |-> "confirm", text |-> line]
           /\ IF lower(line) = <<"c", "a", "n", "c", "e", "l">>
              THEN UNCHANGED <<lastCmd, sess, errState>>
              ELSE \E ok \in BOOLEAN :
                       Issue("main", "measure", selected_servo_id, move_angle,
                             move_angle, ok)
    /\ ToMenu
    /\ UNCHANGED <<gen, afterStop, script, SERVOS, selected_servo_id, mi, homeRet, walk_thread,
                   fine_tune_thread, stop_event, t, exitStatus, exitCause>>
    /\ UNCHANGED <<pendingHome, midTick, homeLog, firstHome, stepLog>>

\* input() raises EOFError, an Exception: the decorator of main() calls
\* sys.exit(1).
measure_eof ==
    /\ mainpc \in {"measure_menu", "servo_id", "angle", "confirm"}
    /\ MeasureExit("eof", 1)
    /\ UNCHANGED <<gen, afterStop, script, SERVOS, entry>>
    /\ UNCHANGED histVars

\* KeyboardInterrupt is no Exception: nothing catches it.
measure_interrupt ==
    /\ mainpc \in {"init", "measure_menu", "servo_id", "angle", "confirm"}
    /\ MeasureExit("sigint", SigintExitStatus)
    /\ UNCHANGED <<gen, afterStop, script, SERVOS, entry>>
    /\ UNCHANGED histVars

Next ==
    \/ configure_all_servos
    \/ boot_sequence
    \/ homing_sequence
    \/ menu_start_walking
    \/ menu_fine_tune
    \/ menu_exit
    \/ menu_step_by_step
    \/ menu_invalid
    \/ menu_eof
    \/ main_join
    \/ main_interrupt
    \/ keyboard_interrupt_uncaught
    \/ walk_loop
    \/ walk_check
    \/ lift_legs
    \/ swing_legs_forward
    \/ lower_legs
    \/ fine_tune_loop
    \/ fine_tune_next
    \/ fine_tune_bottom
    \/ fine_tune_top
    \/ fine_tune_mid
    \/ walk_step_by_step
    \/ step_input_enter
    \/ step_input_eof
    \/ prompt_enter
    \/ prompt_eof
    \/ walk_smoothly
    \/ walk_smoothly_tick
    \/ walk_smoothly_interrupt

Spec == Init /\ [][Next]_vars

\* measure.py starts.
MeasureInit ==
    /\ script = "measure"
    /\ SERVOS = SERVOS_measure
    /\ mainpc = "init"
    /\ mi = 1
    /\ homeRet = "none"
    /\ walk_thread = NoThread
    /\ fine_tune_thread = NoFineTune
    /\ stop_event = FALSE
    /\ t = 0
    /\ exitStatus = -1
    /\ exitCause = "none"
    /\ lastCmd = NoCmd
    /\ sess = "clean"
    /\ errState = "none"
    /\ pendingHome = FALSE
    /\ midTick = FALSE
    /\ homeLog = <<>>
    /\ firstHome = <<>>
    /\ stepLog = <<>>
    /\ choice = <<>>
    /\ selected_servo_id = None
    /\ move_angle = 0
    /\ entry = NoEntry
    /\ gen = NoGen
    /\ afterStop = <<>>

MeasureNext ==
    \/ measure_init
    \/ measure_menu
    \/ measure_servo_id
    \/ measure_angle
    \/ measure_confirm
    \/ measure_eof
    \/ measure_interrupt

\* The walking scripts and measure.py: every script an operator's entries go to.
OperatorSpec == (Init \/ MeasureInit) /\ [][Next \/ MeasureNext]_vars

(***************************************************************************)
(* walk.py: a generator made by generate_angles, resumed until it ends.    *)
(***************************************************************************)

\* start and stop are drawn from 0..GenMax.
GenMax == 6

\* step is drawn from -GenStep..GenStep.
GenStep == 3

\* "while current <= stop" for step > 0, "while current >= stop" for step < 0
InRange(current, stop, step) == IF step > 0 THEN current <= stop ELSE current >= stop

\* generate_angles(start, stop, step) is called: the generator is made and
\* none of its body has run.
GenInit ==
    /\ script = "walk"
    /\ SERVOS = Table("walk")
    /\ mainpc = "boot"
    /\ mi = 1
    /\ homeRet = "none"
    /\ walk_thread = NoThread
    /\ fine_tune_thread = NoFineTune
    /\ stop_event = FALSE
    /\ t = 0
    /\ exitStatus = -1
    /\ exitCause = "none"
    /\ lastCmd = NoCmd
    /\ sess = "clean"
    /\ errState = "none"
    /\ pendingHome = FALSE
    /\ midTick = FALSE
    /\ homeLog = <<>>
    /\ firstHome = <<>>
    /\ stepLog = <<>>
    /\ choice = <<>>
    /\ selected_servo_id = None
    /\ move_angle = 0
    /\ entry = NoEntry
    /\ afterStop = <<>>
    /\ gen \in {[pc |-> "created", start |-> a, stop |-> b, step |-> c,
                 current |-> 0, out |-> <<>>] :
                    a \in 0..GenMax, b \in 0..GenMax, c \in (-GenStep)..GenStep}

\* The first next(): the body runs from its top to the first yield, to its
\* end, or to the raise of ValueError.
gen_first ==
    /\ gen.pc = "created"
    /\ gen' = IF gen.step = 0 THEN [gen EXCEPT !.pc = "raised"]
              ELSE IF InRange(gen.start, gen.stop, gen.step)
              THEN [gen EXCEPT !.pc = "suspended", !.current = gen.start,
                               !.out = <<gen.start>>]
              ELSE [gen EXCEPT !.pc = "done", !.current = gen.start]
    /\ UNCHANGED <<progVars, histVars, measureVars, entry, afterStop>>

\* A resumption that tests the loop with < and > in place of <= and >=.
gen_resume_strict ==
    /\ gen.pc = "suspended"
    /\ LET current == gen.current + gen.step
       IN  gen' = IF current # gen.stop /\ InRange(current, gen.stop, gen.step)
                  THEN [gen EXCEPT !.current = current, !.out = Append(gen.out, current)]
                  ELSE [gen EXCEPT !.pc = "done", !.current = current]
    /\ UNCHANGED <<progVars, histVars, measureVars, entry, afterStop>>

\* A later next(): "current += step", then the next yield or the end.
gen_resume ==
    /\ gen.pc = "suspended"
    /\ LET current == gen.current + gen.step
       IN  gen' = IF InRange(current, gen.stop, gen.step)
                  THEN [gen EXCEPT !.current = current, !.out = Append(gen.out, current)]
                  ELSE [gen EXCEPT !.pc = "done", !.current = current]
    /\ UNCHANGED <<progVars, histVars, measureVars, entry, afterStop>>

GenNext ==
    \/ gen_first
    \/ gen_resume

\* The generator is resumed for as long as it has not ended, as list() does.
GenSpec == GenInit /\ [][GenNext]_vars /\ WF_vars(GenNext)

(***************************************************************************)
(* Properties.                                                             *)
(***************************************************************************)

\* The limits of servo_id are the ones the script asked for.
Echoed(servo_id) ==
    /\ SERVOS[servo_id].min_angle = Requested(script)[servo_id].min_angle
    /\ SERVOS[servo_id].max_angle = Requested(script)[servo_id].max_angle

\* boot_sequence has stored the limits of every servo.
BootCompleted ==
    \/ mainpc \notin {"configure", "boot", "exit"}
    \/ lastCmd.op # "none"

\* C1: in a session of walk.py, once a move command has raised a hardware
\* error, no further gait move command is issued in that session.
C1_NoGaitMoveAfterError ==
    script = "walk" => sess # "moved"

\* C2: every angle walk_smoothly sends to a servo, Top (cosine) or Bottom
\* (sine), lies within the limits boot_sequence stored for that servo.
C2_SmoothAngleWithinLimits ==
    lastCmd.op = "smooth" =>
        /\ SERVOS[lastCmd.servo].min_angle <= lastCmd.angle
        /\ lastCmd.angle <= SERVOS[lastCmd.servo].max_angle

\* C2: walk_smoothly has sent to a servo that reported narrower limits than
\* requested an angle at one of those limits.
C2_Witness ==
    /\ lastCmd.op = "smooth"
    /\ ~Echoed(lastCmd.servo)
    /\ lastCmd.angle \in {SERVOS[lastCmd.servo].min_angle, SERVOS[lastCmd.servo].max_angle}

\* C3: when the program is back at the menu or has stopped after the
\* operator interrupted walking, a homing sequence has been run since the
\* interrupt (a hardware error or a further interrupt aside).
C3_HomingAfterInterrupt ==
    (mainpc \in {"menu", "exit"} /\ exitCause \notin {"hw", "sigint"}) => ~pendingHome

\* C4: walking that is cancelled leaves for homing, or stops, at a tick
\* boundary only: never when the tick in progress has issued some of its
\* commands and not all of them.
C4_CancelAtTickBoundary ==
    (exitCause = "interrupt" \/ (mainpc = "home" /\ homeRet = "menu")) => ~midTick

\* C5: a process that a hardware error has ended has attempted homing after
\* the error and has a non-zero exit status.
C5_HardwareErrorHomesAndFails ==
    exitCause = "hw" => (errState = "homed" /\ exitStatus # 0)

\* Where the main thread of walk.py issues servo commands.
MainCommands == {"boot", "home", "step_move"}

\* C6: in walk.py at most one worker thread is alive, and the main thread
\* is at a servo command only when no worker thread is alive.
C6_SingleWriter ==
    script = "walk" =>
        /\ ~(is_alive(walk_thread) /\ is_alive(fine_tune_thread))
        /\ mainpc \in MainCommands =>
               ~is_alive(walk_thread) /\ ~is_alive(fine_tune_thread)

\* C6: the main thread is homing after a walking session in which the
\* operator interrupted and a move of the worker raised an error.
C6_Witness ==
    /\ script = "walk"
    /\ mainpc = "home"
    /\ mi > 1
    /\ walk_thread.pc = "done"
    /\ pendingHome
    /\ sess = "moved"

\* The homing sequence in progress, or the last one, has commanded the
\* servos in the order of the table, each at most once, to angle[servo_id];
\* a sequence that was neither cut short by an error nor by an interrupt
\* has commanded all of them.
HomingCommands(angle) ==
    /\ Len(homeLog) <= Len(ORDER(script))
    /\ \A k \in 1..Len(homeLog) :
           homeLog[k] = <<ORDER(script)[k], angle[ORDER(script)[k]]>>
    /\ (mainpc # "home" /\ homeLog # <<>> /\ exitCause \notin {"hw", "sigint"}) =>
           Len(homeLog) = Len(ORDER(script))

C8_HomingIdempotent ==
    firstHome # <<>> =>
        /\ Len(homeLog) <= Len(firstHome)
        /\ \A k \in 1..Len(homeLog) : homeLog[k] = firstHome[k]

\* C8: walk.py has homed on exit right after the homing that followed a
\* walking session the operator interrupted.
C8_Witness ==
    /\ script = "walk"
    /\ exitCause = "normal"
    /\ walk_thread.pc = "done"
    /\ lastCmd.op = "home"
    /\ Len(homeLog) = Len(ORDER(script))

\* The angles a servo's calibration derives from its limits.
Derived(config) ==
    DOMAIN config \cap {"neutral_angle", "swing_forward", "swing_backward",
                        "lift_up", "lift_down"}

\* C9: after boot_sequence has completed, every servo has min_angle <
\* max_angle and each of its neutral, swing and lift angles within them.
C9_CalibrationWithinLimits ==
    BootCompleted =>
        \A servo_id \in ServoIds :
            LET config == SERVOS[servo_id]
            IN  /\ config.min_angle < config.max_angle
                /\ \A f \in Derived(config) :
                       config.min_angle <= config[f] /\ config[f] <= config.max_angle

\* C10: the step of boot_sequence that stores the limits a servo reported
\* leaves each derived angle of that servo at its value clamped into them.
C10_BootReclamps ==
    [][(mainpc = "boot" /\ mainpc' # "exit") =>
          LET servo_id == ORDER(script)[mi]
              was == SERVOS[servo_id]
              now == SERVOS'[servo_id]
          IN  \A f \in Derived(was) :
                  now[f] = Max(now.min_angle, Min(was[f], now.max_angle))]_vars

\* C11: a program that is stopped by an interrupt or by a failed servo
\* command part-way through step-by-step mode has run the homing sequence
\* before it stops: the last command it issued is no step-by-step move.
C11_StepAbortHomes ==
    (mainpc = "exit" /\ exitCause \in {"hw", "sigint"}) => lastCmd.op # "step"

\* What stepLog holds for a move and for a confirmation.
StepMove(servo_id, angle) == <<"move", servo_id, angle>>

StepConfirm == <<"confirm", 0, 0>>

\* v brought into the stored limits of servo_id.
Within(servo_id, v) ==
    IF v < SERVOS[servo_id].min_angle THEN SERVOS[servo_id].min_angle
    ELSE IF v > SERVOS[servo_id].max_angle THEN SERVOS[servo_id].max_angle
    ELSE v

IsPrefix(a, b) ==
    /\ Len(a) <= Len(b)
    /\ \A k \in 1..Len(a) : a[k] = b[k]

C13_CancellationPreventsMoves ==
    [][/\ (script = "walk" /\ stop_event /\ walk_thread.pc \in {"loop", "check"}) =>
              /\ walk_thread'.pc \in {"done", "killed"} \/ walk_thread' = walk_thread
              /\ lastCmd' = lastCmd
       /\ (exitCause = "none" /\ exitCause' \in {"interrupt", "sigint"}) =>
              /\ lastCmd' = lastCmd
              /\ mainpc' = "exit"
              /\ ~is_alive(walk_thread') /\ ~is_alive(fine_tune_thread')]_vars

\* C13: the operator interrupted walking during group A's movement, and
\* walk() ended at the check before group B's movement: its last command is
\* the last lowering of group A.
C13_Witness ==
    /\ script = "walk"
    /\ mainpc = "walk_join"
    /\ stop_event
    /\ walk_thread.pc = "done"
    /\ lastCmd.op = "lower"
    /\ lastCmd.servo = 8

\* C14: in walk.py a stop flag that is set stays set until the next session
\* is started (or the process ends), and every walking or fine-tune session
\* starts with an unset flag.
C14_StopFlagMonotone ==
    [][script = "walk" =>
          /\ (stop_event /\ ~stop_event') =>
                 \/ mainpc = "menu" /\ mainpc' \in {"walk_wait", "ft_wait"}
                 \/ mainpc' = "exit"
          /\ (mainpc = "menu" /\ mainpc' \in {"walk_wait", "ft_wait"}) => ~stop_event']_vars

\* C14: a fine-tune session moves the leg with its flag unset, after a
\* walking session whose flag the operator's interrupt had set.
C14_Witness ==
    /\ script = "walk"
    /\ walk_thread.pc = "done"
    /\ mainpc = "ft_wait"
    /\ ~stop_event
    /\ lastCmd.op = "fine_tune"

\* The servo walk_smoothly commands after servo_id.
CommandedAfter(servo_id) ==
    CASE servo_id = 4 -> 3 [] servo_id = 3 -> 6 [] servo_id = 6 -> 5
      [] servo_id = 5 -> 2 [] servo_id = 2 -> 1 [] servo_id = 1 -> 8
      [] servo_id = 8 -> 7 [] servo_id = 7 -> 4

\* C15: in walk_smoothly the first command is issued at phase 0; the phase
\* changes only between the last command of a tick and the first of the
\* next, and then by exactly FREQUENCY * delta_t; and the commands go round
\* the servos 4, 3, 6, 5, 2, 1, 8, 7 (per leg of LEGS its top servo, then
\* its bottom servo).
C15_PhaseAndOrder ==
        [][script = "smooth" =>
              /\ (lastCmd' # lastCmd /\ lastCmd'.op = "smooth") =>
                     /\ lastCmd'.servo = IF lastCmd.op = "smooth"
                                         THEN CommandedAfter(lastCmd.servo) ELSE 4
                     /\ lastCmd.op # "smooth" => t = 0
              /\ (t' # t /\ mainpc' # "exit") =>
                     /\ t' = t + FREQUENCY * delta_t
                     /\ lastCmd.op = "smooth" /\ lastCmd.servo = 7
                     /\ lastCmd' = lastCmd
              /\ (mainpc = "smooth_sleep" /\ mainpc' = "smooth") =>
                     t' = t + FREQUENCY * delta_t]_vars

\* C15: walk_smoothly is in its third tick and has commanded the first two
\* legs.
C15_Witness ==
    /\ script = "smooth"
    /\ mainpc = "smooth"
    /\ t = 2 * FREQUENCY * delta_t
    /\ lastCmd.op = "smooth"
    /\ lastCmd.servo = 5

\* The phases walk_smoothly passes through.
PhaseGrid == {k * FREQUENCY * delta_t : k \in 0..MaxTicks}

\* The angle walk_smoothly commands to servo_id at time now, were its leg
\* given the phase shift g.
target_angle(servo_id, now, g) ==
    IF servo_id \in {2, 4, 6, 8}
    THEN clamp_angle(SERVOS, servo_id, top_angle(SERVOS, servo_id, leg_phase(now, g)))
    ELSE clamp_angle(SERVOS, servo_id, bottom_angle(SERVOS, servo_id, leg_phase(now, g)))

\* C16: for every calibration boot leaves, every servo and every phase of
\* the grid, the angle commanded has period 2 pi, and a leg of shift pi is
\* commanded at p what a leg of shift 0 is commanded at p + pi.
C16_PeriodicAndGroupOffset ==
    (script = "smooth" /\ mainpc = "prompt") =>
        \A servo_id \in ServoIds : \A p \in PhaseGrid :
            /\ \A g \in {0, PI} :
                   target_angle(servo_id, p + 2 * PI, g) = target_angle(servo_id, p, g)
            /\ target_angle(servo_id, p + PI, 0) = target_angle(servo_id, p, PI)

\* C16: walk_smooth.py has booted and homed with a servo that reported
\* narrower limits than requested, so that its waveform is a clamped one.
C16_Witness ==
    /\ script = "smooth"
    /\ mainpc = "prompt"
    /\ \E servo_id \in ServoIds : ~Echoed(servo_id)

\* The calibrations of the two worked examples, as boot_sequence leaves them
\* when the servo reports the limits it was asked for.
ExampleBottom ==
    LET S == <<[type |-> "bottom", swing_forward |-> 20000, swing_backward |-> 15000,
                min_angle |-> 13000, max_angle |-> 22000]>>
    IN  <<BootConfig("smooth", S, 1, 13000, 22000)>>

ExampleTop ==
    LET S == <<[type |-> "top", lift_up |-> 12000, lift_down |-> 14000,
                min_angle |-> 10000, max_angle |-> 16000]>>
    IN  <<BootConfig("smooth", S, 1, 10000, 16000)>>

\* C17: the angle walk_smoothly commands is, brought into the limits, for a
\* Bottom servo ((swing_forward - swing_backward)/2) sin(p) + (swing_forward
\* + swing_backward)/2 and for a Top servo ((lift_up - lift_down)/2) cos(p) +
\* (lift_up + lift_down)/2, p being t plus the shift of the leg, for every
\* command of the tick under way; the Bottom example is commanded 200 at pi/2
\* and the Top example 120 at 0.
C17_WalkingAngleFormula ==
    /\ (/\ lastCmd.op = "smooth"
        /\ \/ mainpc = "smooth" /\ mi > 1
           \/ mainpc = "smooth_sleep") =>
           LET c == SERVOS[lastCmd.servo]
               p == IF lastCmd.servo \in {3, 4, 7, 8} THEN t ELSE t + PI
               raw == IF lastCmd.servo \in {1, 3, 5, 7}
                      THEN ((c.swing_forward - c.swing_backward) * sin(p)
                            + (c.swing_forward + c.swing_backward) * SinScale)
                           \div (2 * SinScale)
                      ELSE ((c.lift_up - c.lift_down) * cos(p)
                            + (c.lift_up + c.lift_down) * SinScale)
                           \div (2 * SinScale)
           IN  lastCmd.angle = Within(lastCmd.servo, raw)
    /\ clamp_angle(ExampleBottom, 1, bottom_angle(ExampleBottom, 1, PI \div 2)) = 20000
    /\ clamp_angle(ExampleTop, 1, top_angle(ExampleTop, 1, 0)) = 12000

\* C17: walk_smoothly is in its fourth tick and has just commanded the top
\* servo of Front Right, a leg of shift pi.
C17_Witness ==
    /\ script = "smooth"
    /\ mainpc = "smooth"
    /\ t = 3 * FREQUENCY * delta_t
    /\ lastCmd.op = "smooth"
    /\ lastCmd.servo = 6

\* The servos of walk.py's two groups, as sets.
GroupA == {GROUP_A[i] : i \in DOMAIN GROUP_A}

GroupB == {GROUP_B[i] : i \in DOMAIN GROUP_B}

\* The phase walk_smoothly gives leg number i of LEGS at time now.
PhaseOfLeg(i, now) == leg_phase(now, phase_shift(LEGS[i].name))

\* C18: while walk_smoothly runs, Front Left and Back Right (walk.py's
\* GROUP_A) have phase t, Front Right and Back Left have phase t + pi: two
\* legs of one diagonal pair have the same phase, two legs of different
\* pairs differ by exactly pi, and the command just sent was computed at the
\* phase of its leg.
C18_DiagonalPhases ==
    (script = "smooth" /\ mainpc \in {"smooth", "smooth_sleep"}) =>
        /\ \A i \in DOMAIN LEGS :
               LET leg == LEGS[i]
               IN  \/ /\ {leg.top_servo_id, leg.bottom_servo_id} \subseteq GroupA
                      /\ leg.name \in {"Front Left", "Back Right"}
                      /\ PhaseOfLeg(i, t) = t
                   \/ /\ {leg.top_servo_id, leg.bottom_servo_id} \subseteq GroupB
                      /\ leg.name \in {"Front Right", "Back Left"}
                      /\ PhaseOfLeg(i, t) = t + PI
        /\ \A i, j \in DOMAIN LEGS :
               LET d == PhaseOfLeg(i, t) - PhaseOfLeg(j, t)
                   same == (LEGS[i].top_servo_id \in GroupA)
                               <=> (LEGS[j].top_servo_id \in GroupA)
               IN  IF same THEN d = 0 ELSE d \in {PI, -PI}
        /\ (lastCmd.op = "smooth" /\ (mainpc = "smooth_sleep" \/ mi > 1)) =>
               LET p == IF lastCmd.servo \in GroupA THEN t ELSE t + PI
               IN  lastCmd.raw =
                       IF SERVOS[lastCmd.servo].type = "top"
                       THEN top_angle(SERVOS, lastCmd.servo, p)
                       ELSE bottom_angle(SERVOS, lastCmd.servo, p)

\* C18: in its third tick walk_smoothly has commanded all four legs, Back
\* Right last, and is about to sleep.
C18_Witness ==
    /\ script = "smooth"
    /\ mainpc = "smooth_sleep"
    /\ t = 2 * FREQUENCY * delta_t
    /\ lastCmd.op = "smooth"
    /\ lastCmd.servo = 7

\* v lies between a and b, whichever of the two is the larger.
Between(v, a, b) == (a <= v /\ v <= b) \/ (b <= v /\ v <= a)

\* The phase p is in the half period around 0 in which the sine rises.
RisingHalf(p) == (p + PI \div 2) % (2 * PI) \in 1 .. (PI - 1)

\* The phase p is in the half period around pi in which the sine falls.
FallingHalf(p) == (p + PI \div 2) % (2 * PI) \in (PI + 1) .. (2 * PI - 1)

\* C19: for every leg and every phase p walk_smoothly gives it, cos(p) > 0
\* exactly in the half period where the bottom waveform moves toward
\* swing_forward, and the top waveform is then between its midpoint and
\* lift_up; cos(p) < 0 exactly in the half period where the bottom waveform
\* moves toward swing_backward, and the top waveform is then between its
\* midpoint and lift_down.
C19_LiftLeadsSwing ==
    (script = "smooth" /\ mainpc = "smooth") =>
        \A i \in DOMAIN LEGS :
            LET p == PhaseOfLeg(i, t)
                b == SERVOS[LEGS[i].bottom_servo_id]
                c == SERVOS[LEGS[i].top_servo_id]
                swing == bottom_angle(SERVOS, LEGS[i].bottom_servo_id, p)
                next == bottom_angle(SERVOS, LEGS[i].bottom_servo_id, p + 1)
                lift == top_angle(SERVOS, LEGS[i].top_servo_id, p)
                mid == (c.lift_up + c.lift_down) \div 2
            IN  /\ (cos(p) > 0) <=> RisingHalf(p)
                /\ (cos(p) < 0) <=> FallingHalf(p)
                /\ RisingHalf(p) =>
                       /\ Between(next, swing, b.swing_forward)
                       /\ Between(lift, mid, c.lift_up)
                /\ FallingHalf(p) =>
                       /\ Between(next, swing, b.swing_backward)
                       /\ Between(lift, mid, c.lift_down)

\* C19: in its second tick walk_smoothly has commanded Front Left, whose
\* bottom waveform is moving toward swing_forward and whose top waveform is
\* off its midpoint, while Front Right is in the falling half period.
C19_Witness ==
    /\ script = "smooth"
    /\ mainpc = "smooth"
    /\ t = FREQUENCY * delta_t
    /\ lastCmd.op = "smooth"
    /\ lastCmd.servo = 3
    /\ RisingHalf(PhaseOfLeg(1, t))
    /\ FallingHalf(PhaseOfLeg(2, t))
    /\ bottom_angle(SERVOS, 3, t + 1) # bottom_angle(SERVOS, 3, t)
    /\ top_angle(SERVOS, 4, t) # (SERVOS[4].lift_up + SERVOS[4].lift_down) \div 2

\* C20: whenever the program has ended on an end of input, at the menu or at
\* a confirmation prompt, the last servo command it sent was one of
\* homing_sequence.
C20_EofHomes ==
    (mainpc = "exit" /\ exitCause = "eof") => lastCmd.op = "home"

\* The entries that are valid at a prompt: the menu choices of walk.py (blanks
\* around them are dropped) and of measure.py (they are not), the ids of the
\* 8 servos, the angles from 0 to 240 degrees.
ValidEntries(s, prompt) ==
    CASE s = "walk" /\ prompt = "menu" ->
             {<<"1">>, <<"2">>, <<"3">>, <<"4">>, <<" ", "3", " ">>}
      [] s = "measure" /\ prompt = "menu" ->
             {<<"1">>, <<"2">>, <<"3">>, <<"4">>, <<"5">>, <<"6">>}
      [] s = "measure" /\ prompt = "servo_id" -> {<<"3">>, <<" ", "8">>}
      [] s = "measure" /\ prompt = "angle" -> {<<"9", "0">>, <<"2", "4", "0">>}
      [] OTHER -> {}

\* The prompt the main thread waits at, "none" if it is at none of them.
PromptAt(s, pc) ==
    CASE s = "walk" /\ pc = "menu" -> "menu"
      [] s = "measure" /\ pc = "measure_menu" -> "menu"
      [] s = "measure" /\ pc \in {"servo_id", "angle"} -> pc
      [] OTHER -> "none"

\* C21: a step in which the program, waiting at the menu of walk.py or at
\* the menu, the servo id prompt or the angle prompt of measure.py, reads an
\* entry that is not valid there and goes on running sends no servo command,
\* changes neither the selected servo nor the table, and leaves the program
\* at its menu prompt.
C21_InvalidEntryChangesNothing ==
    [][(/\ PromptAt(script, mainpc) # "none"
        /\ mainpc' # "exit"
        /\ entry'.prompt = PromptAt(script, mainpc)
        /\ entry'.text \notin ValidEntries(script, PromptAt(script, mainpc)))
          => /\ lastCmd' = lastCmd
             /\ selected_servo_id' = selected_servo_id
             /\ SERVOS' = SERVOS
             /\ PromptAt(script, mainpc') = "menu"]_vars

\* C21: measure.py has refused 240.5 degrees for servo 8, after a move and a
\* recording for servo 3, and is back at its menu.
C21_Witness ==
    /\ script = "measure"
    /\ mainpc = "measure_menu"
    /\ entry = [prompt |-> "angle", text |-> <<"2", "4", "0", ".", "5">>]
    /\ selected_servo_id = 8
    /\ lastCmd.op = "measure"
    /\ lastCmd.servo = 3
    /\ SERVOS[3].min_angle # NotRecorded

\* The angles clamp_angle is tried with for a servo of limits lo..hi: the
\* ends of the servo's range, and the angles at and next to each limit.
ClampInputs(lo, hi) == {0, lo - 1, lo, lo + 1, hi - 1, hi, hi + 1, 24000}

\* clamp_angle of the table S obeys the clamping law for the servo: an angle
\* within the limits is returned as it is, an angle beyond a limit gives that
\* limit, and clamping the result again returns it.
ClampLaw(S, servo_id) ==
    LET lo == S[servo_id].min_angle
        hi == S[servo_id].max_angle
    IN  \A x \in ClampInputs(lo, hi) :
            LET r == clamp_angle(S, servo_id, x)
            IN  /\ (lo <= x /\ x <= hi) => r = x
                /\ x < lo => r = lo
                /\ x > hi => r = hi
                /\ clamp_angle(S, servo_id, r) = r

\* The angle a command of homing_sequence, walk_step_by_step or
\* walk_smoothly passed to clamp_angle, S being the table at that time.
Unclamped(S, cmd) ==
    IF cmd.op = "home" THEN S[cmd.servo].neutral_angle ELSE cmd.raw

\* C22: in walk_smooth.py and the step-by-step scripts, a step of
\* homing_sequence, walk_step_by_step or walk_smoothly that sends a command
\* leaves the table as it was and commands its angle x clamped: x when
\* min_angle <= x <= max_angle, the limit that x is beyond otherwise; and
\* for the limits of the commanded servo clamp_angle obeys this law at and
\* around each limit, and clamping its result returns the result.
C22_ClampLaw ==
    [][(/\ script \in {"smooth", "single", "dual"}
        /\ lastCmd' # lastCmd
        /\ lastCmd'.op \in {"home", "step", "smooth"})
          => /\ SERVOS' = SERVOS
             /\ ClampLaw(SERVOS, lastCmd'.servo)
             /\ lastCmd'.angle =
                    IF Unclamped(SERVOS, lastCmd') < SERVOS[lastCmd'.servo].min_angle
                    THEN SERVOS[lastCmd'.servo].min_angle
                    ELSE IF Unclamped(SERVOS, lastCmd') > SERVOS[lastCmd'.servo].max_angle
                    THEN SERVOS[lastCmd'.servo].max_angle
                    ELSE Unclamped(SERVOS, lastCmd')]_vars

\* C22: homing_sequence of a step-by-step script has commanded a servo whose
\* neutral angle is beyond a limit the servo narrowed.
C22_Witness ==
    /\ script \in {"single", "dual"}
    /\ mainpc = "home"
    /\ lastCmd.op = "home"
    /\ lastCmd.angle # SERVOS[lastCmd.servo].neutral_angle
    /\ ~Echoed(lastCmd.servo)

\* What the generator has yielded so far is start, start + step, ..., each
\* between start and stop; with step 0 it yields nothing and can only raise;
\* once it has ended, the value after the last one yielded is past stop, and
\* the values yielded are the list swing_legs_forward gets.
GenYields ==
    /\ \A k \in DOMAIN gen.out :
           /\ gen.out[k] = gen.start + (k - 1) * gen.step
           /\ Between(gen.out[k], gen.start, gen.stop)
    /\ gen.step = 0 => (gen.out = <<>> /\ gen.pc \in {"created", "raised"})
    /\ gen.pc = "raised" => gen.step = 0
    /\ gen.pc = "suspended" => gen.out # <<>>
    /\ gen.pc = "done" =>
           /\ ~InRange(gen.start + Len(gen.out) * gen.step, gen.stop, gen.step)
           /\ gen.out = <<>> <=> ~InRange(gen.start, gen.stop, gen.step)
           /\ gen.out = generate_angles(gen.start, gen.stop, gen.step)

\* C23: a generator of generate_angles that is resumed until it ends raises
\* ValueError when step is 0, and otherwise ends after it has yielded
\* exactly start, start + step, start + 2 step, ... for as long as the value
\* has not passed stop: what it yields lies between start and stop, starts
\* with start, and is nothing when start is already past stop.
C23_GenerateAngles ==
    /\ []GenYields
    /\ gen.step = 0 => <>(gen.pc = "raised")
    /\ gen.step # 0 => <>(gen.pc = "done")

\* C23: a generator with a negative step has ended after three values or
\* more, the last of which is not stop.
C23_Witness ==
    /\ gen.pc = "done"
    /\ gen.step < 0
    /\ Len(gen.out) >= 3
    /\ gen.out[Len(gen.out)] # gen.stop

\* The Top servos of a group of walk.py in the order of the group, and the
\* group a servo is in.
Tops(grp) == SelectSeq(Group(grp), IsTop)

GroupOf(servo_id) == IF servo_id \in GroupA THEN "A" ELSE "B"

OtherGroup(grp) == IF grp = "A" THEN "B" ELSE "A"

\* The command cmd of walk() may follow the command prev, the last one sent
\* before it: a group movement lifts the Top servos of the group one after
\* the other, then swings its Bottom servos, then lowers its Top servos one
\* after the other; the first lift of group A follows the last lowering of
\* group B or commands of another function; the first lift of group B follows
\* the last lowering of group A.
Follows(S, prev, cmd) ==
    LET grp == GroupOf(cmd.servo)
        tops == Tops(grp)
        others == Tops(OtherGroup(grp))
        first == cmd.servo = tops[1]
        PrevTop(op) ==
            /\ prev.by = "walk"
            /\ prev.op = op
            /\ \E k \in 2..Len(tops) : cmd.servo = tops[k] /\ prev.servo = tops[k - 1]
    IN  CASE cmd.op = "lift" ->
                 /\ IsTop(cmd.servo)
                 /\ cmd.angle = S[cmd.servo].lift_up
                 /\ IF first
                    THEN IF prev.by = "walk"
                         THEN prev.op = "lower" /\ prev.servo = others[Len(others)]
                         ELSE grp = "A"
                    ELSE PrevTop("lift")
          [] cmd.op = "swing" ->
                 /\ IsBottom(cmd.servo)
                 /\ prev.by = "walk"
                 /\ GroupOf(prev.servo) = grp
                 /\ \/ prev.op = "lift" /\ prev.servo = tops[Len(tops)]
                    \/ prev.op = "swing"
          [] cmd.op = "lower" ->
                 /\ IsTop(cmd.servo)
                 /\ cmd.angle = S[cmd.servo].lift_down
                 /\ IF first
                    THEN prev.by = "walk" /\ prev.op = "swing" /\ GroupOf(prev.servo) = grp
                    ELSE PrevTop("lower")
          [] OTHER -> FALSE

\* C24: in a walking session of walk.py in which no servo command has
\* raised, every command of walk() follows the one before it in the order of
\* alternating group movements that start with group A, each a lift, a swing
\* and a lowering; and walk() returns only with the stop flag set and either
\* before its first command or after the lowering of the last Top servo of
\* the group it moved, so that no leg it lifted is left up.
C24_GroupMovementsAlternate ==
    [][(script = "walk" /\ sess' = "clean" /\ walk_thread'.pc # "killed") =>
          /\ (walk_thread.pc \in {"lift", "swing", "lower"}
                  /\ walk_thread' # walk_thread) =>
                 /\ lastCmd'.by = "walk"
                 /\ lastCmd'.op = walk_thread.pc
                 /\ Follows(SERVOS, lastCmd, lastCmd')
          /\ (walk_thread.pc \in {"loop", "check"} /\ walk_thread'.pc = "done") =>
                 /\ stop_event
                 /\ lastCmd.by = "walk" =>
                        /\ lastCmd.op = "lower"
                        /\ lastCmd.servo = Tops(GroupOf(lastCmd.servo))[2]]_vars

\* C24: the operator interrupted a walking session without errors while
\* group B was swinging or being lowered; walk() has lowered group B's last
\* Top servo and returned.
C24_Witness ==
    /\ script = "walk"
    /\ sess = "clean"
    /\ mainpc = "walk_join"
    /\ stop_event
    /\ walk_thread.pc = "done"
    /\ lastCmd.by = "walk"
    /\ lastCmd.op = "lower"
    /\ lastCmd.servo = 6

\* The Bottom servos of a group of walk.py in the order of the group.
Bottoms(grp) == SelectSeq(Group(grp), IsBottom)

Abs(x) == IF x < 0 THEN -x ELSE x

\* The swing of servo_id has a step number k: k - 1 steps of step_size from
\* swing_backward do not pass swing_forward.
HasStep(S, servo_id, k) ==
    k >= 1 /\ (k - 1) * step_size <= Abs(S[servo_id].swing_forward - S[servo_id].swing_backward)

\* The number of the step that commands angle to servo_id, 0 if none does.
StepNo(S, servo_id, a) ==
    LET d == a - S[servo_id].swing_backward
        k == Abs(d) \div step_size + 1
    IN  IF /\ Abs(d) % step_size = 0
           /\ Between(a, S[servo_id].swing_backward, S[servo_id].swing_forward)
           /\ HasStep(S, servo_id, k)
        THEN k ELSE 0

\* No Bottom servo of the group that comes after place j has a step k.
NoneAfter(S, grp, j, k) ==
    \A l \in (j + 1)..Len(Bottoms(grp)) : ~HasStep(S, Bottoms(grp)[l], k)

\* The swing command cmd may follow the command prev: it is a step of a
\* Bottom servo of the group, the first step of the first one after the
\* lift, and after a swing command the same step of the next servo that has
\* it, or, when no later servo has it, the next step of the first servo that
\* has one.
SwingFollows(S, prev, cmd) ==
    LET grp == GroupOf(cmd.servo)
        bottoms == Bottoms(grp)
        k == StepNo(S, cmd.servo, cmd.angle)
        j == CHOOSE l \in DOMAIN bottoms : bottoms[l] = cmd.servo
        FirstWith(n, from) ==
            /\ k = n
            /\ j >= from
            /\ \A l \in from..(j - 1) : ~HasStep(S, bottoms[l], n)
    IN  /\ IsBottom(cmd.servo)
        /\ k >= 1
        /\ IF prev.op = "swing"
           THEN LET pk == StepNo(S, prev.servo, prev.angle)
                    pj == CHOOSE l \in DOMAIN bottoms : bottoms[l] = prev.servo
                IN  \/ FirstWith(pk, pj + 1)
                    \/ NoneAfter(S, grp, pj, pk) /\ FirstWith(pk + 1, 1)
           ELSE FirstWith(1, 1)

\* The swing command cmd is the last one of its swing: no later servo of
\* the group has the step of cmd and none has a further step, so that every
\* Bottom servo of the group has been commanded to within less than
\* step_size of its swing_forward.
SwingComplete(S, cmd) ==
    LET grp == GroupOf(cmd.servo)
        bottoms == Bottoms(grp)
        k == StepNo(S, cmd.servo, cmd.angle)
        j == CHOOSE l \in DOMAIN bottoms : bottoms[l] = cmd.servo
    IN  /\ NoneAfter(S, grp, j, k)
        /\ NoneAfter(S, grp, 0, k + 1)

Raised ==
    \/ sess = "clean" /\ sess' = "failed"
    \/ errState # "pending" /\ errState' = "pending"

\* C26: in walk.py, a step in which boot_sequence, homing_sequence or
\* walk_step_by_step raises on the main thread ends the process, and a
\* process that has ended takes no further step; a step in which lift_legs,
\* swing_legs_forward or lower_legs raises in the thread of walk() leaves the
\* process running, the main thread where it was, and walk() alive at the
\* statement after the call.
C26_DecoratorByThread ==
    [][/\ mainpc # "exit"
       /\ (script = "walk" /\ Raised /\ mainpc \in {"boot", "home", "step_move"}) =>
              /\ mainpc' = "exit"
              /\ exitStatus' # -1
              /\ ~is_alive(walk_thread') /\ ~is_alive(fine_tune_thread')
       /\ (script = "walk" /\ Raised /\ walk_thread.pc \in {"lift", "swing", "lower"}) =>
              /\ lastCmd'.by = "walk"
              /\ mainpc' = mainpc
              /\ exitStatus' = -1
              /\ walk_thread'.pc =
                     IF walk_thread.pc = "lift" THEN "swing"
                     ELSE IF walk_thread.pc = "swing" THEN "lower"
                     ELSE IF walk_thread.grp = "A" THEN "check" ELSE "loop"]_vars

\* C26: a command of lift_legs has raised in the thread of walk(), which
\* goes on with swing_legs_forward while the main thread waits for it.
C26_Witness ==
    /\ script = "walk"
    /\ sess = "failed"
    /\ errState = "pending"
    /\ mainpc = "walk_wait"
    /\ lastCmd.by = "walk"
    /\ lastCmd.op = "lift"
    /\ walk_thread.pc = "swing"

\* The main thread is in the fine-tuning session: waiting for the thread, or
\* joining it after the operator's interrupt.
FineTuning == script = "walk" /\ mainpc \in {"ft_wait", "ft_join"}

\* C27: in a fine-tuning session of walk.py, a servo move of the thread that
\* raises sets the stop flag, and once a move has raised the thread issues no
\* further command; after the operator's interrupt has set the flag the thread
\* commands at most the Bottom servo and then the Top servo of the step under
\* way; and the main thread leaves the session, a further interrupt aside,
\* only for homing_sequence(), and only when the thread has returned.
C27_FineTuneStops ==
    [][FineTuning =>
         /\ (Raised /\ lastCmd'.by = "fine_tune") => stop_event'
         /\ sess = "failed" => (stop_event /\ lastCmd' = lastCmd)
         /\ afterStop' \in {<<>>, <<3>>, <<4>>, <<3, 4>>}
         /\ (mainpc = "ft_join" /\ lastCmd' # lastCmd) =>
                (lastCmd'.by = "fine_tune" /\ afterStop' = Append(afterStop, lastCmd'.servo))
         /\ mainpc' \notin {"ft_wait", "ft_join", "exit"} =>
                /\ ~is_alive(fine_tune_thread)
                /\ mainpc' = "home" /\ homeRet' = "menu" /\ mi' = 1]_vars

\* The operator's interrupt fell before the two moves of a step, both servos
\* were still commanded, and the thread has returned: the join ends.
C27_Witness ==
    /\ FineTuning /\ mainpc = "ft_join" /\ stop_event /\ sess = "clean"
    /\ fine_tune_thread.pc = "done" /\ afterStop = <<3, 4>>
    /\ lastCmd.by = "fine_tune" /\ lastCmd.servo = 4

\* C28: in the fine-tuning mode of walk.py, every angle commanded to servo 3
\* lies within the limits servo 3 reported at boot, and every angle commanded
\* to servo 4 is the angle just commanded to servo 3 less 50 degrees, brought
\* into the limits servo 4 reported at boot.
C28_FineTuneWithinLimits ==
    [][(script = "walk" /\ lastCmd' # lastCmd /\ lastCmd'.op = "fine_tune") =>
         /\ SERVOS' = SERVOS
         /\ SERVOS[3].min_angle <= SERVOS[3].max_angle
         /\ SERVOS[4].min_angle <= SERVOS[4].max_angle
         /\ lastCmd'.servo \in {3, 4}
         /\ lastCmd'.servo = 3 =>
                /\ SERVOS[3].min_angle <= lastCmd'.angle
                /\ lastCmd'.angle <= SERVOS[3].max_angle
         /\ lastCmd'.servo = 4 =>
                /\ lastCmd.op = "fine_tune" /\ lastCmd.servo = 3
                /\ lastCmd'.angle = Max(SERVOS[4].min_angle,
                                        Min(lastCmd.angle - 5000, SERVOS[4].max_angle))]_vars

\* Servo 4 has been commanded to one of its limits, the angle of servo 3 less
\* 50 degrees lying outside them, with limits narrower than those asked for.
C28_Witness ==
    /\ script = "walk" /\ lastCmd.op = "fine_tune" /\ lastCmd.servo = 4
    /\ lastCmd.raw # lastCmd.angle
    /\ lastCmd.angle \in {SERVOS[4].min_angle, SERVOS[4].max_angle}
    /\ ~Echoed(4)

\* The two extremes walk_smooth.py stores for a servo: swing_forward and
\* swing_backward of a Bottom servo, lift_up and lift_down of a Top servo.
Extremes(S, servo_id) ==
    IF S[servo_id].type = "bottom"
    THEN {S[servo_id].swing_forward, S[servo_id].swing_backward}
    ELSE {S[servo_id].lift_up, S[servo_id].lift_down}

\* C29: in walk_smooth.py, once configure_servos and boot_sequence have run,
\* the two stored extremes of every servo lie within the limits the servo
\* reported, the unclamped waveform value of every walking command lies
\* between the two extremes of its servo, and the angle commanded is that
\* value: clamp_angle changes no walking angle.
C29_WaveformWithinExtremes ==
    (script = "smooth" /\ mainpc \notin {"configure", "boot", "exit"}) =>
        /\ \A servo_id \in DOMAIN SERVOS : \A e \in Extremes(SERVOS, servo_id) :
               /\ SERVOS[servo_id].min_angle <= SERVOS[servo_id].max_angle
               /\ SERVOS[servo_id].min_angle <= e
               /\ e <= SERVOS[servo_id].max_angle
        /\ lastCmd.op = "smooth" =>
               /\ \E a, b \in Extremes(SERVOS, lastCmd.servo) : Between(lastCmd.raw, a, b)
               /\ lastCmd.angle = lastCmd.raw

\* A walking command to a servo that reported narrower limits than asked
\* for: one of its extremes was brought to a limit at boot, and the waveform
\* has reached that extreme.
C29_Witness ==
    /\ script = "smooth" /\ mainpc \in {"smooth", "smooth_sleep"}
    /\ lastCmd.op = "smooth" /\ ~Echoed(lastCmd.servo)
    /\ lastCmd.raw \in Extremes(SERVOS, lastCmd.servo)
    /\ lastCmd.raw \in {SERVOS[lastCmd.servo].min_angle, SERVOS[lastCmd.servo].max_angle}

\* The servos of the first k moves of a homing sequence, in its order.
HomingPrefix(s, log) ==
    /\ Len(log) <= Len(ORDER(s))
    /\ \A k \in 1..Len(log) : log[k][1] = ORDER(s)[k]

\* C30: in walk.py, walk_smooth.py and the step-by-step scripts no move is
\* commanded while boot_sequence runs; main() goes from boot_sequence to
\* homing_sequence only when the eighth servo has answered, and the first
\* move commanded is the first of that homing; until a homing sequence has
\* moved all eight servos every command is one of its moves, in its order;
\* and a step of boot_sequence in which a servo fails to initialize ends the
\* process, with no move commanded then or later.
C30_BootThenHoming ==
    [][(script \in Scripts) =>
         /\ mainpc \in {"configure", "boot"} => (lastCmd = NoCmd /\ lastCmd' = NoCmd)
         /\ (mainpc = "boot" /\ mainpc' \notin {"boot", "exit"}) =>
                /\ mi = Len(ORDER(script)) /\ Len(ORDER(script)) = 8
                /\ mainpc' = "home" /\ mi' = 1 /\ homeLog' = <<>>
         /\ (lastCmd = NoCmd /\ lastCmd' # NoCmd) =>
                /\ mainpc = "home" /\ mi = 1 /\ firstHome = <<>>
                /\ lastCmd'.op = "home" /\ lastCmd'.servo = ORDER(script)[1]
         /\ (firstHome = <<>> /\ lastCmd' # lastCmd) =>
                /\ lastCmd'.op = "home"
                /\ HomingPrefix(script, homeLog') /\ homeLog' # <<>>
                /\ homeLog'[Len(homeLog')] = <<lastCmd'.servo, lastCmd'.angle>>
         /\ (firstHome = <<>> /\ firstHome' # <<>>) =>
                (Len(firstHome') = 8 /\ HomingPrefix(script, firstHome'))
         /\ (mainpc = "boot" /\ errState # "pending" /\ errState' = "pending") =>
                (mainpc' = "exit" /\ lastCmd' = NoCmd)
         /\ mainpc = "exit" => (lastCmd' = lastCmd)]_vars

\* The boot has answered for all eight servos, limits narrower than asked
\* for among them, the homing sequence that follows has moved all eight, and
\* the first command of another kind has been issued.
C30_Witness ==
    /\ script \in Scripts /\ Len(firstHome) = 8
    /\ lastCmd.op \notin {"none", "home"}
    /\ \E servo_id \in ServoIds : ~Echoed(servo_id)

====
